---- MODULE Spec2Model ----
(***************************************************************************)
(* Multi-block structured grid -> unstructured mesh (cangyu/Grid-Tools).   *)
(*                                                                         *)
(* Two pipelines are modelled over one set of variables:                   *)
(*   Spec      NMF::Mapping3D(inp) of inc/nmf.hpp: readFromFile followed   *)
(*             by numbering().                                             *)
(*   SpecGlue  GridTool::XF::MESH::MESH of src/glue.cc: the mesh assembler *)
(*             run on top of the NMF interface it includes (inc/nmf.h).    *)
(*                                                                         *)
(* size_t values are represented by the integer of least magnitude that is *)
(* congruent to them modulo 2^64; +, - and * on such representatives are   *)
(* exact as long as the magnitudes stay small, which the bounds ensure.    *)
(***************************************************************************)
EXTENDS Integers, Sequences, FiniteSets, TLC

(***************************************************************************)
(* Bounds of the model.                                                    *)
(***************************************************************************)
\* Largest number of blocks in an input file.
MaxBlk == 2
\* Largest node count of a block along one axis.
MaxDim == 3
\* Largest total number of hex cells in an input file.
MaxCells == 6
\* Largest range end written in an entry whose range exceeds its surface.
MaxEnd == 5
\* Largest integer written in an entry line.
MaxRange == 100000

(***************************************************************************)
(* Program constants.                                                      *)
(***************************************************************************)
ONE_TO_ONE == 2
WALL == 10
SYM == 11
NumOfEdge == 12
NumOfSurf == 6
NumOfVertex == 8

VARIABLES
    file,       \* the NMF input file: block lines and entry lines
    p3d,        \* the PLOT3D grid: one <<nI, nJ, nK>> per block
    pc,         \* position of the running constructor
    err,        \* the exception that ended it, NoErr if none
    m_blk,      \* Mapping3D::m_blk
    m_entry,    \* Mapping3D::m_entry
    cnt,        \* numbering(): the running counter
    n,          \* the block loop variable of the running sweep
    m_node,     \* MESH: node table (visited marks)
    m_face,     \* MESH: face table
    m_cell,     \* MESH: cell table
    visited,    \* MESH: visited marks of the face sweep
    copy,       \* the Mapping3D copy-constructed from this one, NoCopy if none
    ret         \* what the last call of Block3D::edge or Block3D::surf returned

vars == <<file, p3d, pc, err, m_blk, m_entry, cnt, n, m_node, m_face, m_cell, visited,
          copy, ret>>

\* No copy made, no accessor called.
NoCopy == [m_blk |-> <<>>, m_entry |-> <<>>, made |-> FALSE]

NoRet == [call |-> "", blk |-> 0, n |-> 0, elem |-> <<>>]

NoErr == [type |-> "", what |-> ""]
Throw(t, w) == [type |-> t, what |-> w]

\* The end of the process on a read through a null Block3D*.
NullDeref == [type |-> "SIGSEGV", what |-> "null Block3D*"]

(***************************************************************************)
(* Folding helpers.                                                        *)
(***************************************************************************)
RECURSIVE SumSeq(_)
SumSeq(s) == IF s = <<>> THEN 0 ELSE Head(s) + SumSeq(Tail(s))

SeqsOf(S, len) == [1..len -> S]

(***************************************************************************)
(* NMF::BC                                                                 *)
(***************************************************************************)
\* str_formalize: toupper on every character, then '-' replaced by '_'.  A
\* token is an atom here, so the function is tabulated on the spellings the
\* input files use; every other token of the model is written in upper case
\* without '-' and is left as it is.
str_formalize(s) ==
    CASE s = "wall" -> "WALL"
      [] s = "Wall" -> "WALL"
      [] s = "sym" -> "SYM"
      [] s = "symmetry" -> "SYMMETRY"
      [] s = "sym-x" -> "SYM_X"
      [] s = "SYM-X" -> "SYM_X"
      [] s = "one-to-one" -> "ONE_TO_ONE"
      [] s = "ONE-TO-ONE" -> "ONE_TO_ONE"
      [] s = "pole-dir1" -> "POLE_DIR1"
      [] s = "inflow" -> "INFLOW"
      [] s = "farfield" -> "FARFIELD"
      [] s = "true" -> "TRUE"
      [] s = "false" -> "FALSE"
      [] OTHER -> s

\* str2idx: 0 stands for "throw runtime_error(Not found!)".
str2idx(x) ==
    LET x_ == str_formalize(x)
    IN  CASE x_ = "COLLAPSED" -> 1
          [] x_ = "ONE_TO_ONE" -> ONE_TO_ONE
          [] x_ = "PATCHED" -> 3
          [] x_ = "POLE_DIR1" -> 4
          [] x_ = "POLE_DIR2" -> 5
          [] x_ = "SYM_X" -> 6
          [] x_ = "SYM_Y" -> 7
          [] x_ = "SYM_Z" -> 8
          [] x_ = "UNPROCESSED" -> 9
          [] x_ = "WALL" -> WALL
          [] x_ = "SYM" -> SYM
          [] x_ = "SYMMETRY" -> SYM
          [] x_ = "INFLOW" -> 12
          [] x_ = "OUTFLOW" -> 13
          [] OTHER -> 0

isValidBCStr(x) ==
    str_formalize(x) \in
        {"COLLAPSED", "ONE_TO_ONE", "PATCHED", "POLE_DIR1", "POLE_DIR2",
         "SYM_X", "SYM_Y", "SYM_Z", "UNPROCESSED", "WALL", "SYM",
         "INFLOW", "OUTFLOW"}

\* idx2str: "" stands for "throw runtime_error(Not found!)".
idx2str(x) ==
    CASE x = 1 -> "COLLAPSED"
      [] x = ONE_TO_ONE -> "ONE_TO_ONE"
      [] x = 3 -> "PATCHED"
      [] x = 4 -> "POLE_DIR1"
      [] x = 5 -> "POLE_DIR2"
      [] x = 6 -> "SYM_X"
      [] x = 7 -> "SYM_Y"
      [] x = 8 -> "SYM_Z"
      [] x = 9 -> "UNPROCESSED"
      [] x = WALL -> "WALL"
      [] x = SYM -> "SYM"
      [] x = 12 -> "INFLOW"
      [] x = 13 -> "OUTFLOW"
      [] OTHER -> ""

(***************************************************************************)
(* NMF::CELL, NMF::BLOCK, NMF::Block3D                                     *)
(***************************************************************************)
\* HEX_CELL(): m_cell(0), m_node(8, 0), m_face(6, 0)
HEX_CELL == [m_cell |-> 0,
             m_node |-> [r \in 1..NumOfVertex |-> 0],
             m_face |-> [r \in 1..NumOfSurf |-> 0]]

NoSurf == <<0, 0>>

cell_num(b) == (b.m_nI - 1) * (b.m_nJ - 1) * (b.m_nK - 1)

node_num(b) == b.m_nI * b.m_nJ * b.m_nK

face_num(b) ==
    (b.m_nI - 1) * b.m_nJ * b.m_nK
  + b.m_nI * (b.m_nJ - 1) * b.m_nK
  + b.m_nI * b.m_nJ * (b.m_nK - 1)

\* A null Block3D* slot.
NullBlk == [idx |-> 0, m_nI |-> 0, m_nJ |-> 0, m_nK |-> 0, m_cell |-> <<>>,
            neighbourSurf |-> [f \in 1..NumOfSurf |-> NoSurf]]

\* A pointer to a block: this (the object that holds the pointer) or
\* <<"rhs", i>> (block i of the Mapping3D a copy was made from).
this == <<"this", 0>>

\* A pointer to element at of the m_edge or m_surf of the block b points to.
ElemPtr(b, at) == [blk |-> b, at |-> at]

\* Block3D(nI, nJ, nK) with the second surface of edge 1 wired to surface 4.
Block3D_Edge1Miswired(nI, nJ, nK) ==
    LET includedEdge == << <<5, 9, 8, 12>>, <<6, 11, 7, 10>>, <<1, 10, 4, 9>>,
                           <<2, 12, 3, 11>>, <<1, 5, 2, 6>>, <<3, 8, 4, 7>> >>
        dependentSurf == << <<3, 4>>, <<5, 4>>, <<4, 6>>, <<6, 3>>, <<1, 5>>, <<5, 2>>,
                            <<2, 6>>, <<6, 1>>, <<1, 3>>, <<3, 2>>, <<2, 4>>, <<4, 1>> >>
    IN  [idx |-> 0, m_nI |-> nI, m_nJ |-> nJ, m_nK |-> nK,
         m_cell |-> [c \in 1..((nI - 1) * (nJ - 1) * (nK - 1)) |-> HEX_CELL],
         m_edge |-> [i \in 1..NumOfEdge |->
                       [local_index |-> i, global_index |-> 0, dependentBlock |-> this,
                        dependentSurf |-> [x \in 1..2 |->
                                             ElemPtr(this, dependentSurf[i][x])]]],
         m_surf |-> [i \in 1..NumOfSurf |->
                       [local_index |-> i, dependentBlock |-> this,
                        includedEdge |-> [x \in 1..4 |->
                                            ElemPtr(this, includedEdge[i][x])]]],
         neighbourSurf |-> [f \in 1..NumOfSurf |-> NoSurf]]

\* Block3D(nI, nJ, nK): idx(0), cell_num() default cells, the twelve edges and
\* six surfaces with their local_index, dependentBlock = this and the
\* "Connection between frame edges and surrounding surfaces" (source position
\* x is local index x + 1), no neighbours.  SURF::neighbourSurf is kept per
\* block in neighbourSurf; SURF::counterpartEdge is never assigned.
Block3D(nI, nJ, nK) ==
    LET includedEdge == << <<5, 9, 8, 12>>, <<6, 11, 7, 10>>, <<1, 10, 4, 9>>,
                           <<2, 12, 3, 11>>, <<1, 5, 2, 6>>, <<3, 8, 4, 7>> >>
        dependentSurf == << <<3, 5>>, <<5, 4>>, <<4, 6>>, <<6, 3>>, <<1, 5>>, <<5, 2>>,
                            <<2, 6>>, <<6, 1>>, <<1, 3>>, <<3, 2>>, <<2, 4>>, <<4, 1>> >>
    IN  [idx |-> 0, m_nI |-> nI, m_nJ |-> nJ, m_nK |-> nK,
         m_cell |-> [c \in 1..((nI - 1) * (nJ - 1) * (nK - 1)) |-> HEX_CELL],
         m_edge |-> [i \in 1..NumOfEdge |->
                       [local_index |-> i, global_index |-> 0, dependentBlock |-> this,
                        dependentSurf |-> [x \in 1..2 |->
                                             ElemPtr(this, dependentSurf[i][x])]]],
         m_surf |-> [i \in 1..NumOfSurf |->
                       [local_index |-> i, dependentBlock |-> this,
                        includedEdge |-> [x \in 1..4 |->
                                            ElemPtr(this, includedEdge[i][x])]]],
         neighbourSurf |-> [f \in 1..NumOfSurf |-> NoSurf]]

\* Block3D::cell(i, j, k): position in m_cell (1-based here, 0-based there).
CellIdx(b, i, j, k) == (i - 1) + (b.m_nI - 1) * ((j - 1) + (b.m_nJ - 1) * (k - 1)) + 1

cell(b, i, j, k) == b.m_cell[CellIdx(b, i, j, k)]

\* The cells (i, j, k) of a block.
CellsOf(b) == (1..(b.m_nI - 1)) \X (1..(b.m_nJ - 1)) \X (1..(b.m_nK - 1))

(***************************************************************************)
(* NMF::Mapping3D::ENTRY::RANGE                                            *)
(***************************************************************************)
RANGE(src) == [B |-> src[1], F |-> src[2], S1 |-> src[3], E1 |-> src[4],
               S2 |-> src[5], E2 |-> src[6]]

constains(rg, pri, sec) ==
    /\ rg.S1 <= pri /\ pri <= rg.E1
    /\ rg.S2 <= sec /\ sec <= rg.E2

pri_node_num(rg) == rg.E1 - rg.S1 + 1

sec_node_num(rg) == rg.E2 - rg.S2 + 1

rg_node_num(rg) == pri_node_num(rg) * sec_node_num(rg)

rg_edge_num(rg) ==
    (pri_node_num(rg) - 1) * sec_node_num(rg)
  + (sec_node_num(rg) - 1) * pri_node_num(rg)

rg_face_num(rg) == (pri_node_num(rg) - 1) * (sec_node_num(rg) - 1)

(***************************************************************************)
(* Input files.  A file is the lines before its block-count line (head),   *)
(* the count N, the lines the block loop reads (blks: <<idx, iMax, jMax,   *)
(* kMax>> for a line of four integers, <<>> for any other line) and the    *)
(* lines after them (entries: first token, the integers of the first and   *)
(* of the second range, the swap token).                                   *)
(***************************************************************************)
DimTriples == (2..MaxDim) \X (2..MaxDim) \X (2..MaxDim)

DimCells(d) == (d[1] - 1) * (d[2] - 1) * (d[3] - 1)

\* The dimensions of the blocks of a file, by block id.
DimSeqs ==
    UNION {{ds \in SeqsOf(DimTriples, N) :
               SumSeq([b \in 1..N |-> DimCells(ds[b])]) <= MaxCells} : N \in 1..MaxBlk}

\* Block lines are written in ascending or in descending order of block id.
IdOrders(N) == {[l \in 1..N |-> l], [l \in 1..N |-> N + 1 - l]}

BlockLines(ds, ord) ==
    [l \in 1..Len(ds) |-> <<ord[l], ds[ord[l]][1], ds[ord[l]][2], ds[ord[l]][3]>>]

\* Node counts of surface f of a block of dimensions d along its primary and
\* secondary direction: faces 1/2 span (J, K), 3/4 (I, K), 5/6 (I, J).
SurfPri(d, f) == IF f \in {1, 2} THEN d[2] ELSE d[1]

SurfSec(d, f) == IF f \in {5, 6} THEN d[2] ELSE d[3]

NoInts == <<0, 0, 0, 0, 0, 0>>

WallLine(b, f, d) ==
    [bc |-> "WALL", c1 |-> <<b, f, 1, SurfPri(d, f), 1, SurfSec(d, f)>>,
     c2 |-> NoInts, swp |-> ""]

\* ONE_TO_ONE between surface f1 of block a and surface f2 of block b, both
\* ranges the full surface, the primary range of b descending when rev.
One2OneLine(ds, a, f1, b, f2, rev) ==
    [bc |-> "ONE_TO_ONE",
     c1 |-> <<a, f1, 1, SurfPri(ds[a], f1), 1, SurfSec(ds[a], f1)>>,
     c2 |-> IF rev
            THEN <<b, f2, SurfPri(ds[b], f2), 1, 1, SurfSec(ds[b], f2)>>
            ELSE <<b, f2, 1, SurfPri(ds[b], f2), 1, SurfSec(ds[b], f2)>>,
     swp |-> "FALSE"]

\* ONE_TO_ONE of I-MAX to I-MIN of block 1 with the range 1..e1 x 1..e2 on
\* both sides, whatever the size of the surface.
FreeRangeLine(e1, e2) ==
    [bc |-> "ONE_TO_ONE", c1 |-> <<1, 2, 1, e1, 1, e2>>, c2 |-> <<1, 1, 1, e1, 1, e2>>,
     swp |-> "FALSE"]

RECURSIVE WallLines(_, _, _)
\* One WALL line for every surface from number s on (surfaces are numbered
\* 6*(b-1)+f) that is not in the set used.
WallLines(ds, used, s) ==
    IF s > NumOfSurf * Len(ds) THEN <<>>
    ELSE LET b == ((s - 1) \div NumOfSurf) + 1
             f == ((s - 1) % NumOfSurf) + 1
         IN  (IF <<b, f>> \in used THEN <<>> ELSE <<WallLine(b, f, ds[b])>>)
             \o WallLines(ds, used, s + 1)

MkFile(ds, ord, entries) ==
    [head |-> <<>>, N |-> Len(ds), blks |-> BlockLines(ds, ord), entries |-> entries]

\* Only WALL entries.
WallFile(ds, ord) == MkFile(ds, ord, WallLines(ds, {}, 1))

\* One ONE_TO_ONE entry joining the MAX surface of block a to the MIN surface
\* of block b along axis ax, WALL entries on every other surface.
JoinFile(ds, a, b, ax, rev) ==
    MkFile(ds, [l \in 1..Len(ds) |-> l],
           <<One2OneLine(ds, a, 2 * ax, b, 2 * ax - 1, rev)>>
           \o WallLines(ds, {<<a, 2 * ax>>, <<b, 2 * ax - 1>>}, 1))

\* One block, one ONE_TO_ONE entry with a free range.
FreeRangeFile(ds, e1, e2) ==
    MkFile(ds, <<1>>, <<FreeRangeLine(e1, e2)>> \o WallLines(ds, {<<1, 1>>, <<1, 2>>}, 1))

\* WALL on the part of surface f of block 1 (dimensions d) from K = e on.
RestLine(f, d, e) ==
    [bc |-> "WALL", c1 |-> <<1, f, 1, d[2], e, d[3]>>, c2 |-> NoInts, swp |-> ""]

\* One block whose I-MAX is joined to its I-MIN on the part K = 1..e only, the
\* rest of both surfaces and the four other surfaces being WALL.
PartJoinFile(ds, e) ==
    MkFile(ds, <<1>>,
           <<FreeRangeLine(ds[1][2], e), RestLine(1, ds[1], e), RestLine(2, ds[1], e)>>
           \o WallLines(ds, {<<1, 1>>, <<1, 2>>}, 1))

\* f is one of the input files: a WallFile; a JoinFile whose block b is a
\* itself or the block after a (the first block after the last); a
\* FreeRangeFile.
InputFile(f) ==
    \E ds \in DimSeqs :
       \/ \E ord \in IdOrders(Len(ds)) : f = WallFile(ds, ord)
       \/ \E a \in 1..Len(ds), ax \in 1..3, rev \in BOOLEAN :
             \E b \in {a, (a % Len(ds)) + 1} : f = JoinFile(ds, a, b, ax, rev)
       \/ /\ Len(ds) = 1
          /\ \E e1, e2 \in 2..MaxEnd : f = FreeRangeFile(ds, e1, e2)

(***************************************************************************)
(* Further input files of readFromFile: other spellings of the keywords,   *)
(* comments and blank lines, and files that break a rule of the format.    *)
(***************************************************************************)
\* A line "# ..." and a line of white space.
CommentLine == [bc |-> "#", c1 |-> NoInts, c2 |-> NoInts, swp |-> ""]

BlankLine == [bc |-> "", c1 |-> NoInts, c2 |-> NoInts, swp |-> ""]

\* Dimensions of the single block of the files below.
OneBlock == {ds \in DimSeqs : Len(ds) = 1}

\* First tokens of an entry line of one range.
Keywords ==
    {"COLLAPSED", "PATCHED", "POLE_DIR1", "POLE_DIR2", "SYM_X", "SYM_Y", "SYM_Z",
     "UNPROCESSED", "WALL", "SYM", "SYMMETRY", "INFLOW", "OUTFLOW",
     "wall", "Wall", "sym", "symmetry", "sym-x", "SYM-X", "pole-dir1", "inflow",
     "farfield", "FARFIELD"}

\* WALL entries on every surface but I-MIN, whose line starts with kw.
KeywordFile(ds, kw) ==
    MkFile(ds, <<1>>, <<[WallLine(1, 1, ds[1]) EXCEPT !.bc = kw]>>
                      \o WallLines(ds, {<<1, 1>>}, 1))

\* One block joined to itself, I-MAX to I-MIN, the keyword written kw and the
\* swap token sw.
SpelledJoinFile(ds, kw, sw) ==
    MkFile(ds, <<1>>, <<[One2OneLine(ds, 1, 2, 1, 1, FALSE) EXCEPT !.bc = kw, !.swp = sw]>>
                      \o WallLines(ds, {<<1, 1>>, <<1, 2>>}, 1))

\* s with the line c put before its line at (1-based) position at.
InsertAt(s, at, c) == SubSeq(s, 1, at - 1) \o <<c>> \o SubSeq(s, at, Len(s))

\* The file f with the comment or blank line c inserted: before the
\* block-count line, before block line at, between the last block line and
\* the first entry, before entry line at + 1, after the last entry.
Commented(f, place, at, c) ==
    CASE place = "head" -> [f EXCEPT !.head = <<c>>]
      [] place = "blocks" -> [f EXCEPT !.blks = InsertAt(f.blks, at, <<>>)]
      [] place = "separator" -> [f EXCEPT !.entries = <<c>> \o f.entries]
      [] place = "entries" -> [f EXCEPT !.entries = InsertAt(f.entries, at + 1, c)]
      [] place = "tail" -> [f EXCEPT !.entries = Append(f.entries, c)]

\* The block lines and nothing after them.
NoEntryFile(ds, ord) == MkFile(ds, ord, <<>>)

\* Two blocks whose block lines both carry the id b.
RepeatedIdFile(ds, b) ==
    [WallFile(ds, <<1, 2>>) EXCEPT !.blks = BlockLines(ds, <<b, b>>)]

\* One block whose block line carries the id b.
BlockIdFile(ds, b) ==
    [WallFile(ds, <<1>>) EXCEPT !.blks[1][1] = b]

\* One block whose block line declares d along axis ax.
ThinFile(ds, ax, d) ==
    [WallFile(ds, <<1>>) EXCEPT !.blks[1][ax + 1] = d]

\* WALL entries on every surface but I-MIN, whose line carries the integers
\* c1 instead.
WallRangeFile(ds, c1) ==
    MkFile(ds, <<1>>, <<[bc |-> "WALL", c1 |-> c1, c2 |-> NoInts, swp |-> ""]>>
                      \o WallLines(ds, {<<1, 1>>}, 1))

\* Integers of a WALL line on block 1 of dimensions d that leave the block
\* ids, the faces or surface I-MIN: block 0 and 2, face 0 and 7, a start of
\* 0, an end beyond the surface, a start beyond its end, an end of MaxRange.
OutOfSurface(d) ==
    {<<0, 1, 1, d[2], 1, d[3]>>, <<2, 1, 1, d[2], 1, d[3]>>,
     <<1, 0, 1, d[2], 1, d[3]>>, <<1, 7, 1, d[2], 1, d[3]>>,
     <<1, 1, 0, d[2], 1, d[3]>>, <<1, 1, 1, d[2] + 1, 1, d[3]>>,
     <<1, 1, 1, d[2], 1, d[3] + 1>>, <<1, 1, d[2], 1, 1, d[3]>>,
     <<1, 1, 1, MaxRange, 1, d[3]>>}

\* One block, K-MAX joined to K-MIN by a ONE_TO_ONE entry with the ranges
\* c1 and c2, WALL entries on the other surfaces.
TwoRangeFile(ds, c1, c2) ==
    MkFile(ds, <<1>>, <<[bc |-> "ONE_TO_ONE", c1 |-> c1, c2 |-> c2, swp |-> "FALSE"]>>
                      \o WallLines(ds, {<<1, 5>>, <<1, 6>>}, 1))

\* Two blocks; I-MAX of block 1 is joined to I-MIN of block 2 by the first
\* entry and to surface f2 of block 2 by the second.
TwiceJoinedFile(ds, f2) ==
    MkFile(ds, <<1, 2>>,
           <<One2OneLine(ds, 1, 2, 2, 1, FALSE), One2OneLine(ds, 1, 2, 2, f2, FALSE)>>
           \o WallLines(ds, {<<1, 2>>, <<2, 1>>, <<2, f2>>}, 1))

\* Two blocks; I-MAX of block 1 is joined to J-MIN of block 2, both ranges the
\* full surface, with the swap token sw, the primary range of block 2
\* descending when r1 and its secondary range descending when r2.
OrientedJoinFile(ds, sw, r1, r2) ==
    LET pri == SurfPri(ds[2], 3)
        sec == SurfSec(ds[2], 3)
    IN  MkFile(ds, <<1, 2>>,
               <<[One2OneLine(ds, 1, 2, 2, 3, FALSE) EXCEPT
                     !.c2 = <<2, 3, IF r1 THEN pri ELSE 1, IF r1 THEN 1 ELSE pri,
                              IF r2 THEN sec ELSE 1, IF r2 THEN 1 ELSE sec>>,
                     !.swp = sw]>>
               \o WallLines(ds, {<<1, 2>>, <<2, 3>>}, 1))

\* A file that ends before any line but the blank lines and comments h: no
\* block-count line, written N = -1 (the count pattern matches no sign).
EndedFile(h) == [head |-> h, N |-> -1, blks |-> <<>>, entries |-> <<>>]

\* f is one of these files.
ReaderFile(f) ==
    \/ \E h \in {<<>>, <<CommentLine>>, <<CommentLine, BlankLine>>} : f = EndedFile(h)
    \/ \E ds \in OneBlock :
          \/ \E kw \in Keywords : f = KeywordFile(ds, kw)
          \/ \E kw \in {"ONE_TO_ONE", "one-to-one", "ONE-TO-ONE"},
                sw \in {"TRUE", "FALSE", "true", "false"} : f = SpelledJoinFile(ds, kw, sw)
          \/ \E b \in {0, 2} : f = BlockIdFile(ds, b)
          \/ \E ax \in 1..3, d \in {0, 1} : f = ThinFile(ds, ax, d)
          \/ \E c1 \in OutOfSurface(ds[1]) : f = WallRangeFile(ds, c1)
          \/ \E e1, e2 \in 2..ds[1][1] :
                f = TwoRangeFile(ds, <<1, 6, 1, e1, 1, ds[1][2]>>, <<1, 5, 1, e2, 1, ds[1][2]>>)
    \/ \E ds \in DimSeqs :
          \/ \E place \in {"head", "blocks", "separator", "entries", "tail"},
                at \in 1..Len(ds), c \in {CommentLine, BlankLine} :
                f = Commented(WallFile(ds, [l \in 1..Len(ds) |-> l]), place, at, c)
          \/ \E ord \in IdOrders(Len(ds)) : f = NoEntryFile(ds, ord)
          \/ /\ Len(ds) = 2
             /\ \/ \E b \in 1..2 : f = RepeatedIdFile(ds, b)
                \/ \E f2 \in {1, 3} : f = TwiceJoinedFile(ds, f2)
                \/ \E sw \in {"TRUE", "FALSE"}, r1, r2 \in BOOLEAN :
                      f = OrientedJoinFile(ds, sw, r1, r2)

(***************************************************************************)
(* NMF::Mapping3D (inc/nmf.hpp)                                            *)
(***************************************************************************)
SingleSideEntry(t, s) ==
    [m_bc |-> str2idx(t), m_rg1 |-> RANGE(s), m_rg2 |-> RANGE(NoInts),
     m_swap |-> FALSE, dbl |-> FALSE]

DoubleSideEntry(t, s1, s2, f) ==
    [m_bc |-> str2idx(t), m_rg1 |-> RANGE(s1), m_rg2 |-> RANGE(s2),
     m_swap |-> f, dbl |-> TRUE]

\* Array1D::operator()(long long i): the 1-based position, 0 for "throw".
Array1DPos(i, N) ==
    IF 1 <= i /\ i <= N THEN i
    ELSE IF -N <= i /\ i <= -1 THEN N + i + 1
    ELSE 0

\* Block3D::surf(int n): the 1-based position, 0 for "throw".
surf(nn) ==
    IF 1 <= nn /\ nn <= NumOfSurf THEN nn
    ELSE IF -NumOfSurf <= nn /\ nn <= -1 THEN NumOfSurf + nn + 1
    ELSE 0

nBlk(blk) == Len(blk)

nCell(blk) == SumSeq([b \in 1..Len(blk) |-> cell_num(blk[b])])

nFace(blk, entries) ==
    SumSeq([b \in 1..Len(blk) |-> face_num(blk[b])])
  - SumSeq([e \in 1..Len(entries) |->
              IF entries[e].m_bc = ONE_TO_ONE THEN rg_face_num(entries[e].m_rg1) ELSE 0])

RECURSIVE ReadBlocks(_, _, _, _)
\* The loop over the N block lines, from line i on.
ReadBlocks(blk, lines, i, N) ==
    IF i > N THEN [err |-> NoErr, blk |-> blk]
    ELSE IF i > Len(lines)
    THEN [err |-> Throw("runtime_error", "Failed to match 4 integers."), blk |-> blk]
    ELSE IF Len(lines[i]) # 4
    THEN [err |-> Throw("runtime_error", "Failed to match 4 integers."), blk |-> blk]
    ELSE LET idx == lines[i][1]
             i_max == lines[i][2]
             j_max == lines[i][3]
             k_max == lines[i][4]
         IN  IF idx < 1 \/ idx > N
             THEN [err |-> Throw("runtime_error", "Invalid order of block"), blk |-> blk]
             ELSE IF i_max < 1
             THEN [err |-> Throw("runtime_error", "Invalid I dimension"), blk |-> blk]
             ELSE IF j_max < 1
             THEN [err |-> Throw("runtime_error", "Invalid J dimension"), blk |-> blk]
             ELSE IF k_max < 1
             THEN [err |-> Throw("runtime_error", "Invalid K dimension"), blk |-> blk]
             ELSE IF i_max < 2 \/ j_max < 2 \/ k_max < 2
             THEN [err |-> Throw("invalid_argument", "Invalid dimension."), blk |-> blk]
             ELSE ReadBlocks([blk EXCEPT ![idx] =
                                 [Block3D(i_max, j_max, k_max) EXCEPT !.idx = idx]],
                             lines, i + 1, N)

\* isBlankLine(s): no character of s but white space.
isBlankLine(l) == l.bc = ""

\* checkStarting(s, '#'): the first character of s that is not white is '#'.
checkStarting(l) == l.bc = "#"

RECURSIVE SkipLines(_)
\* do getline while (isBlankLine(s) || checkStarting(s, '#')) while lines are
\* left: the lines from the one the loop stops at, <<>> if it meets none.
SkipLines(lines) ==
    IF lines = <<>> THEN <<>>
    ELSE IF isBlankLine(Head(lines)) \/ checkStarting(Head(lines))
    THEN SkipLines(Tail(lines))
    ELSE lines

\* ss >> connectivity[.][j] for j = 0..5 on the integers c of a line: those
\* the line has, 0 where it has none left.
Extract(c) == [j \in 1..6 |-> IF j <= Len(c) THEN c[j] ELSE 0]

\* What a line leaves unread in ss: the swap token of a ONE_TO_ONE line with
\* less than twelve integers, on which the twelfth extraction fails.  ss is
\* only clear()ed, so the next line is appended to it.
Leftover(l) ==
    IF str2idx(l.bc) = ONE_TO_ONE /\ Len(l.c1) + Len(l.c2) < 12 THEN l.swp ELSE ""

RECURSIVE ReadEntries(_, _, _)
\* The loop over the entry lines, from line i on.
ReadEntries(entries, lines, i) ==
    IF i > Len(lines) THEN [err |-> NoErr, entries |-> entries]
    ELSE LET l == lines[i]
         IN  IF str2idx(l.bc) = 0 \/ (i > 1 /\ Leftover(lines[i - 1]) # "")
             THEN [err |-> Throw("runtime_error", "Not found!"), entries |-> entries]
             ELSE IF ~isValidBCStr(l.bc)
             THEN [err |-> Throw("runtime_error", "Unsupported B.C. name"),
                   entries |-> entries]
             ELSE IF str2idx(l.bc) = ONE_TO_ONE
             THEN ReadEntries(Append(entries,
                                     DoubleSideEntry(l.bc, Extract(l.c1), Extract(l.c2),
                                                     Leftover(l) = ""
                                                     /\ str_formalize(l.swp) = "TRUE")),
                              lines, i + 1)
             ELSE ReadEntries(Append(entries, SingleSideEntry(l.bc, Extract(l.c1))),
                              lines, i + 1)

RECURSIVE Connect(_, _, _)
\* "Establish connectivity": the loop over m_entry, from entry i on.
Connect(blk, entries, i) ==
    IF i > Len(entries) THEN [err |-> NoErr, blk |-> blk]
    ELSE IF entries[i].m_bc # ONE_TO_ONE THEN Connect(blk, entries, i + 1)
    ELSE LET p == entries[i]
             B1 == Array1DPos(p.m_rg1.B, Len(blk))
             B2 == Array1DPos(p.m_rg2.B, Len(blk))
             F1 == surf(p.m_rg1.F)
             F2 == surf(p.m_rg2.F)
         IN  IF B1 = 0 \/ B2 = 0
             THEN [err |-> Throw("invalid_argument", "is not a valid 1-based index."),
                   blk |-> blk]
             ELSE IF blk[B1] = NullBlk \/ blk[B2] = NullBlk
             THEN [err |-> NullDeref, blk |-> blk]
             ELSE IF F1 = 0 \/ F2 = 0
             THEN [err |-> Throw("invalid_argument",
                                 "is not a valid 1-based surface index for a block."),
                   blk |-> blk]
             ELSE LET blk1 == [blk EXCEPT ![B1].neighbourSurf[F1] = <<B2, F2>>]
                      blk2 == [blk1 EXCEPT ![B2].neighbourSurf[F2] = <<B1, F1>>]
                  IN  Connect(blk2, entries, i + 1)

RECURSIVE Concat(_)
\* ss[1] \o ss[2] \o ...: the iterations of a for loop whose bodies are the
\* inner loops ss[x].
Concat(ss) == IF ss = <<>> THEN <<>> ELSE Head(ss) \o Concat(Tail(ss))

\* numbering(): for k, for j, for i over the cells of a block, I-major.
CellLoop_IMajor(b) ==
    Concat([i \in 1..(b.m_nI - 1) |->
        Concat([j \in 1..(b.m_nJ - 1) |-> [k \in 1..(b.m_nK - 1) |-> <<i, j, k>>]])])

\* numbering(): for k, for j, for i over the cells of a block.
CellLoop(b) ==
    Concat([k \in 1..(b.m_nK - 1) |->
        Concat([j \in 1..(b.m_nJ - 1) |-> [i \in 1..(b.m_nI - 1) |-> <<i, j, k>>]])])

RECURSIVE NumberCells(_, _, _, _)
\* blk->cell(i, j, k).CellSeq() = ++cnt, along loop from iteration t on.
NumberCells(b, loop, t, c) ==
    IF t > Len(loop) THEN b
    ELSE NumberCells(
             [b EXCEPT !.m_cell[CellIdx(b, loop[t][1], loop[t][2], loop[t][3])].m_cell = c + 1],
             loop, t + 1, c + 1)

(***************************************************************************)
(* writeToFile: the text it writes, as readFromFile takes it.              *)
(***************************************************************************)
RECURSIVE Digits(_)
\* Number of characters operator<< writes for x >= 0.
Digits(x) == IF x < 10 THEN 1 ELSE 1 + Digits(x \div 10)

RECURSIVE Pow10(_)
Pow10(d) == IF d = 0 THEN 1 ELSE 10 * Pow10(d - 1)

Field(w, v) == [w |-> w, v |-> v]

RECURSIVE Tokens(_, _, _)
\* The integers a reader finds in setw(w) << std::right << v for the fields
\* from i on, after the integers acc of the same line: setw pads a field to
\* w characters, so a value of w digits or more follows the field before it
\* without a blank and is read as its trailing digits.
Tokens(fields, i, acc) ==
    IF i > Len(fields) THEN acc
    ELSE LET v == fields[i].v
         IN  IF acc # <<>> /\ Digits(v) >= fields[i].w
             THEN Tokens(fields, i + 1,
                         [acc EXCEPT ![Len(acc)] = @ * Pow10(Digits(v)) + v])
             ELSE Tokens(fields, i + 1, Append(acc, v))

\* The line of block i: four fields of width 8.
BlockText(blk, i) ==
    Tokens(<<Field(8, i), Field(8, blk[i].m_nI), Field(8, blk[i].m_nJ),
             Field(8, blk[i].m_nK)>>, 1, <<>>)

RangeFields(rg) ==
    <<Field(6, rg.B), Field(6, rg.F), Field(9, rg.S1), Field(6, rg.E1),
      Field(9, rg.S2), Field(6, rg.E2)>>

\* The line of entry e: the name in a field of width 13 (no name is longer
\* than 11), then the six fields of Range1 and, for ONE_TO_ONE, six fields
\* with the first of width 9 for Range2 and the swap token.
EntryText(e) ==
    LET f2 == [RangeFields(e.m_rg2) EXCEPT ![1].w = 9]
        nums == Tokens(IF e.m_bc = ONE_TO_ONE THEN RangeFields(e.m_rg1) \o f2
                       ELSE RangeFields(e.m_rg1), 1, <<>>)
        len == IF Len(nums) < 6 THEN Len(nums) ELSE 6
    IN  [bc |-> idx2str(e.m_bc),
         c1 |-> SubSeq(nums, 1, len),
         c2 |-> SubSeq(nums, len + 1, Len(nums)),
         swp |-> IF e.m_bc # ONE_TO_ONE THEN ""
                 ELSE IF e.m_swap THEN "TRUE" ELSE "FALSE"]

\* writeToFile: four comment lines, the block count, the block lines in
\* slot order, three comment lines, the entry lines.  m_blk[i]->IDIM() on a
\* null slot ends the process.
writeToFile(blk, entries) ==
    IF \E i \in 1..Len(blk) : blk[i] = NullBlk
    THEN [err |-> NullDeref, out |-> <<>>]
    ELSE [err |-> NoErr,
          out |-> [head |-> <<CommentLine, CommentLine, CommentLine, CommentLine>>,
                   N |-> nBlk(blk),
                   blks |-> [i \in 1..Len(blk) |-> BlockText(blk, i)],
                   entries |-> <<CommentLine, CommentLine, CommentLine>>
                               \o [x \in 1..Len(entries) |-> EntryText(entries[x])]]]

(***************************************************************************)
(* Mapping3D(inp): readFromFile(inp); numbering();                         *)
(***************************************************************************)
Init ==
    /\ InputFile(file) \/ ReaderFile(file)
    /\ p3d = <<>>
    /\ pc = "start"
    /\ err = NoErr
    /\ m_blk = <<>>
    /\ m_entry = <<>>
    /\ cnt = 0
    /\ n = 0
    /\ m_node = <<>>
    /\ m_face = <<>>
    /\ m_cell = <<>>
    /\ visited = <<>>
    /\ copy = NoCopy
    /\ ret = NoRet

\* readFromFile on a file that has a block-count line: the exception thrown
\* (NoErr if none) and m_blk and m_entry when it ends.  When no line is left
\* after the block lines but blank lines and comments, "Skip separators"
\* reads at end of file for ever (getline leaves s empty and isBlankLine(s)
\* keeps holding): hangs.  "Skip header" does the same on a file that ends
\* before any other line.
readFromFile(f) ==
    IF f.N = -1
    THEN [err |-> NoErr, hangs |-> TRUE, blk |-> <<>>, entries |-> <<>>]
    ELSE IF f.N <= 0
    THEN [err |-> Throw("runtime_error", "Invalid num of blocks"), hangs |-> FALSE,
          blk |-> <<>>, entries |-> <<>>]
    ELSE LET rb == ReadBlocks([b \in 1..f.N |-> NullBlk], f.blks, 1, f.N)
             lines == SkipLines(f.entries)
             re == ReadEntries(<<>>, lines, 1)
             rc == Connect(rb.blk, re.entries, 1)
         IN  IF rb.err # NoErr
             THEN [err |-> rb.err, hangs |-> FALSE, blk |-> rb.blk, entries |-> <<>>]
             ELSE IF lines = <<>>
             THEN [err |-> NoErr, hangs |-> TRUE, blk |-> rb.blk, entries |-> <<>>]
             ELSE IF re.err # NoErr
             THEN [err |-> re.err, hangs |-> FALSE, blk |-> rb.blk, entries |-> re.entries]
             ELSE [err |-> rc.err, hangs |-> FALSE, blk |-> rc.blk, entries |-> re.entries]

ReadFromFile ==
    /\ pc = "start"
    /\ LET r == readFromFile(file)
       IN  /\ err' = r.err
           /\ pc' = IF r.err # NoErr THEN "failed"
                    ELSE IF r.hangs
                    THEN IF file.N = -1 THEN "skip_header" ELSE "skip_separators"
                    ELSE "numbering_cells"
           /\ m_blk' = r.blk
           /\ m_entry' = r.entries
    /\ cnt' = 0
    /\ n' = 1
    /\ UNCHANGED <<file, copy, ret, p3d, m_node, m_face, m_cell, visited>>

\* numbering(), "Indexing of cells": one block of the loop over m_blk.  A
\* slot readFromFile left null is dereferenced by blk->IDIM(): the read of
\* address 0 ends the process.
NumberCellsOfBlock ==
    /\ pc = "numbering_cells"
    /\ n <= Len(m_blk)
    /\ IF m_blk[n] = NullBlk
       THEN /\ pc' = "failed"
            /\ err' = NullDeref
            /\ UNCHANGED <<m_blk, cnt, n>>
       ELSE /\ m_blk' = [m_blk EXCEPT
                            ![n] = NumberCells(m_blk[n], CellLoop(m_blk[n]), 1, cnt)]
            /\ cnt' = cnt + cell_num(m_blk[n])
            /\ n' = n + 1
            /\ UNCHANGED <<pc, err>>
    /\ UNCHANGED <<file, copy, ret, p3d, m_entry, m_node, m_face, m_cell, visited>>

\* numbering(): the check of the cell count, then "Indexing of faces" (its
\* loop body assigns nothing) and the check of the face count.
NumberFaces ==
    /\ pc = "numbering_cells"
    /\ n > Len(m_blk)
    /\ IF cnt # nCell(m_blk)
       THEN /\ err' = Throw("length_error", "Inconsistent num of cells detected.")
            /\ pc' = "failed"
            /\ UNCHANGED cnt
       ELSE /\ cnt' = 0
            /\ IF 0 # nFace(m_blk, m_entry)
               THEN /\ err' = Throw("length_error", "Inconsistent num of cells detected.")
                    /\ pc' = "failed"
               ELSE /\ pc' = "numbering_nodes"
                    /\ UNCHANGED err
    /\ UNCHANGED <<file, copy, ret, p3d, m_blk, m_entry, n, m_node, m_face, m_cell, visited>>

\* numbering(), "Indexing of nodes": nothing is assigned; return 0.
NumberNodes ==
    /\ pc = "numbering_nodes"
    /\ cnt' = 0
    /\ pc' = "done"
    /\ UNCHANGED <<file, copy, ret, p3d, err, m_blk, m_entry, n, m_node, m_face, m_cell, visited>>

Next == ReadFromFile \/ NumberCellsOfBlock \/ NumberFaces \/ NumberNodes

Spec == Init /\ [][Next]_vars

\* The constructor is run: control leaves "start" by the call of readFromFile,
\* the one step of Next in a state at "start", which every such state allows.
\* No step is promised inside readFromFile: its loops run as the file makes
\* them run.
ConstructorRuns ==
    /\ pc = "start"
    /\ pc' \in {"failed", "skip_header", "skip_separators", "numbering_cells"}

SpecLive == Init /\ [][Next]_vars /\ WF_pc(ConstructorRuns)

(***************************************************************************)
(* Geometry of a block: lattice points, cell corners, cell faces.          *)
(***************************************************************************)
\* Offset of corner r (1..8) of a hex cell from its node 1 = (i, j, k).
HexCorner(r) ==
    CASE r = 1 -> <<0, 0, 0>>
      [] r = 2 -> <<1, 0, 0>>
      [] r = 3 -> <<1, 1, 0>>
      [] r = 4 -> <<0, 1, 0>>
      [] r = 5 -> <<0, 0, 1>>
      [] r = 6 -> <<1, 0, 1>>
      [] r = 7 -> <<1, 1, 1>>
      [] r = 8 -> <<0, 1, 1>>

\* The lattice points <<b, i, j, k>> of the blocks blk.
Points(blk) ==
    UNION {{<<b, i, j, k>> : <<i, j, k>> \in
               (1..blk[b].m_nI) \X (1..blk[b].m_nJ) \X (1..blk[b].m_nK)} : b \in 1..Len(blk)}

\* The cell corners <<b, c, r>> (c a cell (i, j, k), r in 1..8) of blk.
Corners(blk) ==
    UNION {{<<b, c, r>> : <<c, r>> \in CellsOf(blk[b]) \X (1..NumOfVertex)} :
           b \in 1..Len(blk)}

\* The lattice point a cell corner sits on.
CornerPoint(x) ==
    <<x[1], x[2][1] + HexCorner(x[3])[1], x[2][2] + HexCorner(x[3])[2],
      x[2][3] + HexCorner(x[3])[3]>>

\* The cell faces <<b, c, r>> (r in 1..6) of blk.
Sides(blk) ==
    UNION {{<<b, c, r>> : <<c, r>> \in CellsOf(blk[b]) \X (1..NumOfSurf)} :
           b \in 1..Len(blk)}

\* The quad a cell face lies on: <<b, axis, i, j, k>>, the quad normal to axis
\* whose lowest corner is the lattice point (i, j, k).
SideQuad(x) ==
    LET c == x[2]
        r == x[3]
    IN  CASE r = 1 -> <<x[1], 1, c[1], c[2], c[3]>>
          [] r = 2 -> <<x[1], 1, c[1] + 1, c[2], c[3]>>
          [] r = 3 -> <<x[1], 2, c[1], c[2], c[3]>>
          [] r = 4 -> <<x[1], 2, c[1], c[2] + 1, c[3]>>
          [] r = 5 -> <<x[1], 3, c[1], c[2], c[3]>>
          [] r = 6 -> <<x[1], 3, c[1], c[2], c[3] + 1>>

\* Number of quadrilateral faces of a structured block.
QuadFaces(b) ==
    b.m_nI * (b.m_nJ - 1) * (b.m_nK - 1)
  + (b.m_nI - 1) * b.m_nJ * (b.m_nK - 1)
  + (b.m_nI - 1) * (b.m_nJ - 1) * b.m_nK

\* The ids stored in the block records.
CellSeq(x) == cell(m_blk[x[1]], x[2][1], x[2][2], x[2][3]).m_cell

NodeSeq(x) == cell(m_blk[x[1]], x[2][1], x[2][2], x[2][3]).m_node[x[3]]

FaceSeq(x) == cell(m_blk[x[1]], x[2][1], x[2][2], x[2][3]).m_face[x[3]]

(***************************************************************************)
(* The interface map T of a ONE_TO_ONE entry (connectivity resolver, step  *)
(* B): the start of a range of side A is paired with the start of the      *)
(* paired range of side B, and so are the ends.                            *)
(***************************************************************************)
Sgn(x) == IF x > 0 THEN 1 ELSE IF x < 0 THEN -1 ELSE 0

Lo(a, b) == IF a <= b THEN a ELSE b

Hi(a, b) == IF a <= b THEN b ELSE a

\* The lattice positions (p, s) of the rectangle a range describes.
Rect(rg) == (Lo(rg.S1, rg.E1)..Hi(rg.S1, rg.E1)) \X (Lo(rg.S2, rg.E2)..Hi(rg.S2, rg.E2))

\* T without the swap bit: primary is always sent to primary.
T_SwapIgnored(e, ps) ==
    LET a == e.m_rg1
        b == e.m_rg2
        u == (ps[1] - a.S1) * Sgn(a.E1 - a.S1)
        v == (ps[2] - a.S2) * Sgn(a.E2 - a.S2)
    IN  <<b.S1 + u * Sgn(b.E1 - b.S1), b.S2 + v * Sgn(b.E2 - b.S2)>>

T(e, ps) ==
    LET a == e.m_rg1
        b == e.m_rg2
        u == (ps[1] - a.S1) * Sgn(a.E1 - a.S1)
        v == (ps[2] - a.S2) * Sgn(a.E2 - a.S2)
    IN  IF e.m_swap
        THEN <<b.S1 + v * Sgn(b.E1 - b.S1), b.S2 + u * Sgn(b.E2 - b.S2)>>
        ELSE <<b.S1 + u * Sgn(b.E1 - b.S1), b.S2 + v * Sgn(b.E2 - b.S2)>>

\* The lattice point at position (p, s) of surface f of block b.
SurfPoint(blk, b, f, ps) ==
    CASE f = 1 -> <<b, 1, ps[1], ps[2]>>
      [] f = 2 -> <<b, blk[b].m_nI, ps[1], ps[2]>>
      [] f = 3 -> <<b, ps[1], 1, ps[2]>>
      [] f = 4 -> <<b, ps[1], blk[b].m_nJ, ps[2]>>
      [] f = 5 -> <<b, ps[1], ps[2], 1>>
      [] f = 6 -> <<b, ps[1], ps[2], blk[b].m_nK>>

\* The pairs <<point of A, its image on B>> of one ONE_TO_ONE entry.
LinksOf(blk, e) ==
    {l \in {<<SurfPoint(blk, e.m_rg1.B, e.m_rg1.F, ps),
              SurfPoint(blk, e.m_rg2.B, e.m_rg2.F, T(e, ps))>> : ps \in Rect(e.m_rg1)} :
        l[1] \in Points(blk) /\ l[2] \in Points(blk)}

Links(blk, entries) ==
    UNION {LinksOf(blk, entries[e]) :
           e \in {x \in 1..Len(entries) : entries[x].m_bc = ONE_TO_ONE}}

RECURSIVE Reach(_, _)
\* Everything linked to a member of S, directly or transitively.
Reach(S, L) ==
    LET S2 == S \cup {l[2] : l \in {x \in L : x[1] \in S}}
                \cup {l[1] : l \in {x \in L : x[2] \in S}}
    IN  IF S2 = S THEN S ELSE Reach(S2, L)

\* The four lattice points of a quad <<b, axis, i, j, k>>.
QuadCorners(q) ==
    LET b == q[1]
        i == q[3]
        j == q[4]
        k == q[5]
    IN  CASE q[2] = 1 -> {<<b, i, j, k>>, <<b, i, j + 1, k>>, <<b, i, j, k + 1>>,
                          <<b, i, j + 1, k + 1>>}
          [] q[2] = 2 -> {<<b, i, j, k>>, <<b, i + 1, j, k>>, <<b, i, j, k + 1>>,
                          <<b, i + 1, j, k + 1>>}
          [] q[2] = 3 -> {<<b, i, j, k>>, <<b, i + 1, j, k>>, <<b, i, j + 1, k>>,
                          <<b, i + 1, j + 1, k>>}

\* The quads <<b, axis, i, j, k>> of the blocks blk.
Quads(blk) == {SideQuad(x) : x \in Sides(blk)}

\* The pairs <<quad of A, its image on B>> of the ONE_TO_ONE entries: the
\* corners of the one are sent by T onto the corners of the other.
QuadLinks(blk, entries) ==
    LET Q == Quads(blk)
        Img(L, S) == {l[2] : l \in {x \in L : x[1] \in S}}
        Of(L) ==
            UNION {{<<q1, q2>> : q2 \in {q \in Q : QuadCorners(q) = Img(L, QuadCorners(q1))}} :
                   q1 \in {q \in Q : QuadCorners(q) \subseteq {l[1] : l \in L}}}
    IN  UNION {Of(LinksOf(blk, entries[e])) :
               e \in {x \in 1..Len(entries) : entries[x].m_bc = ONE_TO_ONE}}

(***************************************************************************)
(* Positions of Mapping3D(inp).                                            *)
(***************************************************************************)
\* readFromFile has returned.
Parsed ==
    \/ pc \in {"numbering_cells", "numbering_nodes", "done"}
    \/ pc = "failed" /\ err.type = "length_error"

\* The cell sweep of numbering() is over.
CellsNumbered ==
    \/ pc = "numbering_cells" /\ n > Len(m_blk)
    \/ pc \in {"numbering_nodes", "done"}
    \/ pc = "failed" /\ err.type = "length_error"

\* numbering() has returned or thrown.
NumberingEnded ==
    \/ pc = "done"
    \/ pc = "failed" /\ err.type = "length_error"

CellOffset(b) == SumSeq([x \in 1..(b - 1) |-> cell_num(m_blk[x])])

(***************************************************************************)
(* C1.  After the cell sweep of numbering(), the cell (i, j, k) of block b *)
(* has the id (cells of the blocks before b) + i + (nI-1)*((j-1) +         *)
(* (nJ-1)*(k-1)); the ids are exactly 1..nCell() without duplicate, and    *)
(* the cells of a block precede those of every later block.                *)
(***************************************************************************)
C1_CellIds ==
    CellsNumbered =>
        /\ \A b \in 1..Len(m_blk) : \A c \in CellsOf(m_blk[b]) :
              CellSeq(<<b, c>>) =
                  CellOffset(b) + c[1]
                  + (m_blk[b].m_nI - 1) * ((c[2] - 1) + (m_blk[b].m_nJ - 1) * (c[3] - 1))
        /\ {CellSeq(<<b, c>>) : <<b, c>> \in
               UNION {{<<b, c>> : c \in CellsOf(m_blk[b])} : b \in 1..Len(m_blk)}}
           = 1..nCell(m_blk)
        /\ \A b1, b2 \in 1..Len(m_blk) : b1 < b2 =>
              \A c1 \in CellsOf(m_blk[b1]), c2 \in CellsOf(m_blk[b2]) :
                 CellSeq(<<b1, c1>>) < CellSeq(<<b2, c2>>)

\* Two blocks swept, 3 nodes along I and J in the first and along K in the
\* second: cell (1,2,1) of block 1 is cell 3, the last cell of block 2 is 6.
C1_Witness ==
    /\ CellsNumbered
    /\ Len(m_blk) = 2
    /\ m_blk[1].m_nI = 3 /\ m_blk[1].m_nJ = 3 /\ m_blk[1].m_nK = 2
    /\ m_blk[2].m_nI = 2 /\ m_blk[2].m_nJ = 2 /\ m_blk[2].m_nK = 3
    /\ CellSeq(<<1, <<1, 2, 1>>>>) = 3
    /\ CellSeq(<<2, <<1, 1, 2>>>>) = 6

(***************************************************************************)
(* C2.  For every parsed model nFace() is the number of quadrilateral      *)
(* faces of the blocks minus (e1-s1)*(e2-s2) of every ONE_TO_ONE entry.    *)
(***************************************************************************)
C2_FaceCount ==
    Parsed =>
        nFace(m_blk, m_entry) =
            SumSeq([b \in 1..Len(m_blk) |-> QuadFaces(m_blk[b])])
          - SumSeq([e \in 1..Len(m_entry) |->
                      IF m_entry[e].m_bc = ONE_TO_ONE
                      THEN (m_entry[e].m_rg1.E1 - m_entry[e].m_rg1.S1)
                           * (m_entry[e].m_rg1.E2 - m_entry[e].m_rg1.S2)
                      ELSE 0])

(***************************************************************************)
(* C3.  For one block with WALL entries on its six surfaces, loading and   *)
(* numbering end without an error, with (nI-1)(nJ-1)(nK-1) cells and the   *)
(* quad faces of the block as its faces, each cell face carrying an id.    *)
(***************************************************************************)
\* Every entry of the file is a WALL entry.
OnlyWalls(f) == \A l \in 1..Len(f.entries) : f.entries[l].bc = "WALL"

C3_SingleBlock ==
    (OnlyWalls(file) /\ file.N = 1 /\ pc \in {"done", "failed"}) =>
        /\ pc = "done"
        /\ err = NoErr
        /\ nCell(m_blk) = cell_num(m_blk[1])
        /\ nFace(m_blk, m_entry) = QuadFaces(m_blk[1])
        /\ \A x \in Sides(m_blk) : FaceSeq(x) \in 1..QuadFaces(m_blk[1])

(***************************************************************************)
(* C4.  Two 2x2x2 blocks, ONE_TO_ONE from face 2 of block 1 to face 1 of   *)
(* block 2 and ten WALL entries: the pipeline ends without an error with   *)
(* 2 cells and 11 faces.                                                   *)
(***************************************************************************)
TwoCubes == <<<<2, 2, 2>>, <<2, 2, 2>>>>

TwoCubesFile == JoinFile(TwoCubes, 1, 2, 1, FALSE)

C4_TwoCubes ==
    (file = TwoCubesFile /\ pc \in {"done", "failed"}) =>
        /\ pc = "done"
        /\ nCell(m_blk) = 2
        /\ nFace(m_blk, m_entry) = 11

(***************************************************************************)
(* C8.  After numbering(), two cell corners carry the same node id exactly *)
(* when their lattice points are related by the closure of the interface   *)
(* maps T, and the node ids in use are 1..(number of classes of points).   *)
(***************************************************************************)
C8_NodeIds ==
    NumberingEnded =>
        LET L == Links(m_blk, m_entry)
        IN  /\ \A x, y \in Corners(m_blk) :
                  (NodeSeq(x) = NodeSeq(y)) <=> (CornerPoint(y) \in Reach({CornerPoint(x)}, L))
            /\ {NodeSeq(x) : x \in Corners(m_blk)}
               = 1..Cardinality({Reach({pt}, L) : pt \in Points(m_blk)})

(***************************************************************************)
(* C9.  After numbering(), two cell faces carry the same face id exactly   *)
(* when they lie on the same quad or on quads that are images of each      *)
(* other under T, and the face ids in use are 1..(number of faces).        *)
(***************************************************************************)
C9_FaceIds ==
    NumberingEnded =>
        LET L == QuadLinks(m_blk, m_entry)
        IN  /\ \A x, y \in Sides(m_blk) :
                  (FaceSeq(x) = FaceSeq(y)) <=> (SideQuad(y) \in Reach({SideQuad(x)}, L))
            /\ {FaceSeq(x) : x \in Sides(m_blk)}
               = 1..Cardinality({Reach({q}, L) : q \in Quads(m_blk)})

(***************************************************************************)
(* C10.  A ONE_TO_ONE entry (swap FALSE, I-MAX of A to I-MIN of B) whose   *)
(* primary range on B is written descending is accepted; node, edge and    *)
(* face count and point containment of that range are those of the same    *)
(* rectangle written ascending; and the node of A at (nI, j, k) has the id *)
(* of the node of B at (1, nJ+1-j, k).                                     *)
(***************************************************************************)
Ascending(rg) ==
    [rg EXCEPT !.S1 = Lo(rg.S1, rg.E1), !.E1 = Hi(rg.S1, rg.E1),
               !.S2 = Lo(rg.S2, rg.E2), !.E2 = Hi(rg.S2, rg.E2)]

\* The input has an entry from I-MAX to I-MIN with a descending primary range
\* on side B.
ReversedJoin(f) ==
    \E l \in 1..Len(f.entries) :
       /\ f.entries[l].bc = "ONE_TO_ONE"
       /\ f.entries[l].c1[2] = 2 /\ f.entries[l].c2[2] = 1
       /\ f.entries[l].c1[1] # f.entries[l].c2[1]
       /\ f.entries[l].c2[3] > f.entries[l].c2[4]

C10_ReversedRange ==
    (ReversedJoin(file) /\ pc # "start") =>
        /\ Parsed
        /\ \A e \in 1..Len(m_entry) :
              (m_entry[e].dbl /\ m_entry[e].m_rg2.S1 > m_entry[e].m_rg2.E1) =>
                 LET rg == m_entry[e].m_rg2
                     A == m_entry[e].m_rg1.B
                     B == rg.B
                 IN  /\ rg_node_num(rg) = rg_node_num(Ascending(rg))
                     /\ rg_edge_num(rg) = rg_edge_num(Ascending(rg))
                     /\ rg_face_num(rg) = rg_face_num(Ascending(rg))
                     /\ \A ps \in (1..MaxDim) \X (1..MaxDim) :
                           constains(rg, ps[1], ps[2]) = constains(Ascending(rg), ps[1], ps[2])
                     /\ \A x, y \in Corners(m_blk) :
                           (/\ CornerPoint(x)[1] = A /\ CornerPoint(y)[1] = B
                            /\ CornerPoint(x)[2] = m_blk[A].m_nI /\ CornerPoint(y)[2] = 1
                            /\ CornerPoint(y)[3] = m_blk[B].m_nJ + 1 - CornerPoint(x)[3]
                            /\ CornerPoint(y)[4] = CornerPoint(x)[4])
                           => NodeSeq(x) = NodeSeq(y)

(***************************************************************************)
(* Claims about readFromFile and writeToFile.                              *)
(***************************************************************************)
\* The model readFromFile leaves: the dimensions by slot and the entries.
ModelOf(blk, entries) ==
    [dims |-> [b \in 1..Len(blk) |-> <<blk[b].m_nI, blk[b].m_nJ, blk[b].m_nK>>],
     entries |-> entries]

\* C11: for every file readFromFile accepts, writing the parsed model with
\* writeToFile and parsing the output again yields the same model: the same
\* number of blocks, the same dimensions for every block id, the same
\* sequence of entries.
C11_RoundTrip ==
    Parsed =>
        LET w == writeToFile(m_blk, m_entry)
            r == readFromFile(w.out)
        IN  /\ w.err = NoErr
            /\ r.err = NoErr /\ ~r.hangs
            /\ ModelOf(r.blk, r.entries) = ModelOf(m_blk, m_entry)

\* The file f without its comment lines and blank lines.
Uncommented(f) ==
    [f EXCEPT !.head = <<>>,
              !.blks = SelectSeq(f.blks, LAMBDA l : l # <<>>),
              !.entries = SelectSeq(f.entries,
                                    LAMBDA l : ~(isBlankLine(l) \/ checkStarting(l)))]

\* C12: lines that start with '#' or hold only white space, at any position
\* of the file, change neither whether readFromFile accepts the file nor the
\* model it parses.
C12_Comments ==
    pc # "start" =>
        LET a == readFromFile(file)
            b == readFromFile(Uncommented(file))
        IN  /\ (a.err = NoErr) = (b.err = NoErr)
            /\ a.hangs = b.hangs
            /\ a.err = NoErr => ModelOf(a.blk, a.entries) = ModelOf(b.blk, b.entries)

\* C13: an entry line is accepted exactly when its first token, upper-cased
\* and with '-' replaced by '_', is one of the fourteen keywords, SYMMETRY
\* among them; a SYMMETRY entry is stored with the kind of a SYM entry; any
\* other token is rejected with an error.
C13_Keywords ==
    LET kw == file.entries[1].bc
        names == {"COLLAPSED", "ONE_TO_ONE", "PATCHED", "POLE_DIR1", "POLE_DIR2",
                  "SYM_X", "SYM_Y", "SYM_Z", "UNPROCESSED", "WALL", "SYM", "SYMMETRY",
                  "INFLOW", "OUTFLOW"}
    IN  (/\ pc # "start"
         /\ file.N = 1 /\ Len(file.blks) = 1 /\ file.entries # <<>>
         /\ file = KeywordFile(<<Tail(file.blks[1])>>, kw)) =>
            /\ Parsed = (str_formalize(kw) \in names)
            /\ ~Parsed => pc = "failed" /\ err # NoErr
            /\ (Parsed /\ str_formalize(kw) = "SYMMETRY") => m_entry[1].m_bc = SYM

\* C14: readFromFile succeeds only if the ids of the N block lines form the
\* set 1..N and every dimension is at least 2; after it every slot b of
\* m_blk holds a block whose index() is b.
C14_BlockIds ==
    Parsed =>
        /\ {file.blks[x][1] : x \in 1..file.N} = 1..file.N
        /\ \A x \in 1..file.N : \A ax \in 2..4 : file.blks[x][ax] >= 2
        /\ \A b \in 1..Len(m_blk) : m_blk[b].idx = b

\* C15: every range of an accepted model (the range of a single-side entry,
\* both ranges of a ONE_TO_ONE entry) names a block in 1..N and a face in
\* 1..6 and satisfies 1 <= s <= e <= dimension along both axes of that
\* surface of its block.
C15_RangesInSurface ==
    Parsed =>
        \A e \in 1..Len(m_entry) :
           \A rg \in {m_entry[e].m_rg1} \cup (IF m_entry[e].dbl THEN {m_entry[e].m_rg2} ELSE {}) :
              /\ rg.B \in 1..Len(m_blk)
              /\ rg.F \in 1..NumOfSurf
              /\ LET b == m_blk[rg.B]
                     d == <<b.m_nI, b.m_nJ, b.m_nK>>
                 IN  /\ 1 <= rg.S1 /\ rg.S1 <= rg.E1 /\ rg.E1 <= SurfPri(d, rg.F)
                     /\ 1 <= rg.S2 /\ rg.S2 <= rg.E2 /\ rg.E2 <= SurfSec(d, rg.F)

\* C16: no ONE_TO_ONE entry of an accepted model has two ranges of different
\* numbers of quad cells, (e1 - s1) * (e2 - s2) on side A against side B.
C16_AreaMatch ==
    LET quads(rg) ==
            LET a == (rg.E1 - rg.S1) * (rg.E2 - rg.S2) IN IF a < 0 THEN -a ELSE a
    IN  Parsed =>
            \A e \in 1..Len(m_entry) :
               m_entry[e].m_bc = ONE_TO_ONE =>
                  quads(m_entry[e].m_rg1) = quads(m_entry[e].m_rg2)

\* C17: an entry naming a surface that already has a neighbour is rejected;
\* in an accepted model each surface takes part in at most one ONE_TO_ONE
\* entry and neighbourSurf is symmetric.
C17_OneInterfacePerSurface ==
    Parsed =>
        /\ \A b \in 1..Len(m_blk), f \in 1..NumOfSurf :
              Cardinality({e \in 1..Len(m_entry) :
                              /\ m_entry[e].m_bc = ONE_TO_ONE
                              /\ <<b, f>> \in {<<m_entry[e].m_rg1.B, m_entry[e].m_rg1.F>>,
                                               <<m_entry[e].m_rg2.B, m_entry[e].m_rg2.F>>}}) <= 1
        /\ \A b \in 1..Len(m_blk), f \in 1..NumOfSurf :
              LET t == m_blk[b].neighbourSurf[f]
              IN  t # NoSurf => m_blk[t[1]].neighbourSurf[t[2]] = <<b, f>>

\* C28: readFromFile ends on every input file: the constructor leaves the
\* call, by a return or by an exception.
C28_ReadTerminates == <>(pc \notin {"start", "skip_header", "skip_separators"})

(***************************************************************************)
(* Calls on a Mapping3D object made by Mapping3D(): readFromFile, the copy *)
(* constructor, coloring, the destructor, and Block3D::edge and            *)
(* Block3D::surf on its blocks.                                            *)
(***************************************************************************)
\* Block3D::edge(int n) with m_edge.at(NumOfEdge + n) read as a 1-based position.
edge_NegativeOneShort(nn) ==
    IF 1 <= nn /\ nn <= NumOfEdge THEN nn
    ELSE IF -NumOfEdge <= nn /\ nn <= -1 THEN NumOfEdge + nn
    ELSE 0

\* Block3D::edge(int n): the 1-based position, 0 for "throw".
edge(nn) ==
    IF 1 <= nn /\ nn <= NumOfEdge THEN nn
    ELSE IF -NumOfEdge <= nn /\ nn <= -1 THEN NumOfEdge + nn + 1
    ELSE 0

\* Block3D(const Block3D &rhs) = default, rhs being block i of the Mapping3D
\* copied from: every member is copied as it is, so each pointer of the new
\* object holds the address it held in rhs.
Block3D_copy(rhs, i) ==
    [rhs EXCEPT
        !.m_edge = [e \in 1..NumOfEdge |->
                      [rhs.m_edge[e] EXCEPT
                          !.dependentBlock = <<"rhs", i>>,
                          !.dependentSurf = [x \in 1..2 |->
                              ElemPtr(<<"rhs", i>>, rhs.m_edge[e].dependentSurf[x].at)]]],
        !.m_surf = [s \in 1..NumOfSurf |->
                      [rhs.m_surf[s] EXCEPT
                          !.dependentBlock = <<"rhs", i>>,
                          !.includedEdge = [x \in 1..4 |->
                              ElemPtr(<<"rhs", i>>, rhs.m_surf[s].includedEdge[x].at)]]],
        !.neighbourSurf = [f \in 1..NumOfSurf |->
                             IF rhs.neighbourSurf[f] = NoSurf THEN NoSurf
                             ELSE <<"rhs">> \o rhs.neighbourSurf[f]]]

\* Mapping3D(const Mapping3D &rhs): new Block3D(*rhs.m_blk[i]) for every slot
\* and a copy of every entry.
Mapping3D_copy(blk, entries) ==
    [m_blk |-> [i \in 1..Len(blk) |-> Block3D_copy(blk[i], i)],
     m_entry |-> entries, made |-> TRUE]

\* coloring(): every edge whose global_index is 0 starts a search that takes
\* the next value of global_cnt; the search assigns it to that edge and
\* pushes nothing, so it ends after one edge.
coloring(blk) ==
    LET Zero(a, b) == blk[a].m_edge[b].global_index = 0
        global_cnt(i, j) ==
            Cardinality({x \in (1..Len(blk)) \X (1..NumOfEdge) :
                            /\ Zero(x[1], x[2])
                            /\ x[1] < i \/ (x[1] = i /\ x[2] <= j)})
    IN  [i \in 1..Len(blk) |->
            [blk[i] EXCEPT !.m_edge = [j \in 1..NumOfEdge |->
                [blk[i].m_edge[j] EXCEPT
                    !.global_index = IF Zero(i, j) THEN global_cnt(i, j) ELSE @]]]]

\* The files passed to readFromFile: one cube with WALL entries; two cubes
\* joined; one cube joined to itself; then a count line "0", a block line
\* with the id 0, an entry line starting with an unknown word, a ONE_TO_ONE
\* entry on surface 7, two block lines with the id 1, no entry line.
CallFiles ==
    LET cube == <<<<2, 2, 2>>>>
    IN  {WallFile(cube, <<1>>),
         TwoCubesFile,
         JoinFile(cube, 1, 1, 1, FALSE),
         [WallFile(cube, <<1>>) EXCEPT !.N = 0],
         BlockIdFile(cube, 0),
         KeywordFile(cube, "UNPROCESSED"),
         TwoRangeFile(cube, <<1, 7, 1, 2, 1, 2>>, <<1, 5, 1, 2, 1, 2>>),
         RepeatedIdFile(TwoCubes, 1),
         NoEntryFile(cube, <<1>>)}

\* Mapping3D() = default: no block, no entry, no file read yet.
InitCalls ==
    /\ file = EndedFile(<<>>)
    /\ p3d = <<>>
    /\ pc = "constructed"
    /\ err = NoErr
    /\ m_blk = <<>>
    /\ m_entry = <<>>
    /\ cnt = 0
    /\ n = 0
    /\ m_node = <<>>
    /\ m_face = <<>>
    /\ m_cell = <<>>
    /\ visited = <<>>
    /\ copy = NoCopy
    /\ ret = NoRet

\* readFromFile(path) on the object, which may hold a model: the two throws
\* before release_all() leave m_blk and m_entry as they are; after it the
\* object holds what the call has built when it ends.
CallReadFromFile ==
    /\ pc \in {"constructed", "loaded", "colored", "threw"}
    /\ \E f \in CallFiles :
          LET r == readFromFile(f)
          IN  /\ file' = f
              /\ err' = r.err
              /\ pc' = IF r.err # NoErr THEN "threw"
                       ELSE IF r.hangs THEN "skip_separators"
                       ELSE "loaded"
              /\ m_blk' = IF f.N <= 0 THEN m_blk ELSE r.blk
              /\ m_entry' = IF f.N <= 0 THEN m_entry ELSE r.entries
    /\ UNCHANGED <<p3d, cnt, n, m_node, m_face, m_cell, visited, copy, ret>>

\* Mapping3D other(*this): *rhs.m_blk[i] on a null slot ends the process.
CallCopy ==
    /\ pc \in {"loaded", "colored"}
    /\ IF \E i \in 1..Len(m_blk) : m_blk[i] = NullBlk
       THEN /\ pc' = "failed"
            /\ err' = NullDeref
            /\ UNCHANGED copy
       ELSE /\ copy' = Mapping3D_copy(m_blk, m_entry)
            /\ UNCHANGED <<pc, err>>
    /\ UNCHANGED <<file, p3d, m_blk, m_entry, cnt, n, m_node, m_face, m_cell, visited, ret>>

\* coloring() on the loaded model: b->edge(j) on a null slot ends the process.
CallColoring ==
    /\ pc \in {"loaded", "colored"}
    /\ IF \E i \in 1..Len(m_blk) : m_blk[i] = NullBlk
       THEN /\ pc' = "failed"
            /\ err' = NullDeref
            /\ UNCHANGED m_blk
       ELSE /\ m_blk' = coloring(m_blk)
            /\ pc' = "colored"
            /\ UNCHANGED err
    /\ UNCHANGED <<file, p3d, m_entry, cnt, n, m_node, m_face, m_cell, visited, copy, ret>>

\* ~Mapping3D() of the object: release_all() deletes its blocks and entries.
Destroy ==
    /\ pc \in {"constructed", "loaded", "colored", "threw"}
    /\ pc' = "destroyed"
    /\ m_blk' = <<>>
    /\ m_entry' = <<>>
    /\ UNCHANGED <<file, p3d, err, cnt, n, m_node, m_face, m_cell, visited, copy, ret>>

NextCalls == CallReadFromFile \/ CallCopy \/ CallColoring \/ Destroy

SpecCalls == InitCalls /\ [][NextCalls]_vars

\* C30: in a Mapping3D made by the copy constructor every cross-reference
\* stays inside the copy: dependentBlock of each edge and surface is the block
\* of the copy that holds it, includedEdge and dependentSurf point to elements
\* of that same block, and neighbourSurf to a surface of a block of the copy;
\* so whatever is done to the source afterwards, no reference of the copy
\* leads into the source.
C30_CopyIsSelfContained ==
    copy.made =>
        \A i \in 1..Len(copy.m_blk) :
           LET b == copy.m_blk[i]
           IN  /\ \A e \in 1..NumOfEdge :
                     /\ b.m_edge[e].dependentBlock = this
                     /\ \A x \in 1..2 : b.m_edge[e].dependentSurf[x].blk = this
               /\ \A s \in 1..NumOfSurf :
                     /\ b.m_surf[s].dependentBlock = this
                     /\ \A x \in 1..4 : b.m_surf[s].includedEdge[x].blk = this
               /\ \A f \in 1..NumOfSurf :
                     Len(b.neighbourSurf[f]) = 2

\* The arguments edge and surf are called with.
AccessorArgs == ((-NumOfEdge - 1)..(NumOfEdge + 1)) \cup {-MaxRange, MaxRange}

\* m_blk(b)->edge(nn): the element returned (none on a throw).
CallEdge ==
    /\ pc = "loaded"
    /\ \E b \in 1..Len(m_blk), nn \in AccessorArgs :
          /\ m_blk[b] # NullBlk
          /\ ret' = [call |-> "edge", blk |-> b, n |-> nn,
                     elem |-> IF edge(nn) = 0 THEN <<>> ELSE <<m_blk[b].m_edge[edge(nn)]>>]
          /\ err' = IF edge(nn) = 0
                    THEN Throw("invalid_argument", "is not a valid edge index for a 3D block.")
                    ELSE NoErr
    /\ UNCHANGED <<file, p3d, pc, m_blk, m_entry, cnt, n, m_node, m_face, m_cell, visited,
                   copy>>

\* m_blk(b)->surf(nn): the element returned (none on a throw).
CallSurf ==
    /\ pc = "loaded"
    /\ \E b \in 1..Len(m_blk), nn \in AccessorArgs :
          /\ m_blk[b] # NullBlk
          /\ ret' = [call |-> "surf", blk |-> b, n |-> nn,
                     elem |-> IF surf(nn) = 0 THEN <<>> ELSE <<m_blk[b].m_surf[surf(nn)]>>]
          /\ err' = IF surf(nn) = 0
                    THEN Throw("invalid_argument",
                               "is not a valid 1-based surface index for a block.")
                    ELSE NoErr
    /\ UNCHANGED <<file, p3d, pc, m_blk, m_entry, cnt, n, m_node, m_face, m_cell, visited,
                   copy>>

\* The accessors are called on the block of an object that has read a file of
\* one block with WALL entries.
InitAccess ==
    /\ \E d \in DimTriples :
          /\ file = WallFile(<<d>>, <<1>>)
          /\ m_blk = readFromFile(file).blk
          /\ m_entry = readFromFile(file).entries
    /\ p3d = <<>>
    /\ pc = "loaded"
    /\ err = NoErr
    /\ cnt = 0
    /\ n = 0
    /\ m_node = <<>>
    /\ m_face = <<>>
    /\ m_cell = <<>>
    /\ visited = <<>>
    /\ copy = NoCopy
    /\ ret = NoRet

NextAccess == CallEdge \/ CallSurf

SpecAccess == InitAccess /\ [][NextAccess]_vars

(***************************************************************************)
(* Claims about the calls.                                                 *)
(***************************************************************************)
\* C21: in every Block3D of the object and of its copy, surface s lists its
\* bounding edges in the order of the wiring table, every edge has two
\* distinct dependent surfaces, and s is a dependent surface of e exactly
\* when e bounds s.
C21_WiringTable ==
    LET table == << <<5, 9, 8, 12>>, <<6, 11, 7, 10>>, <<1, 10, 4, 9>>,
                    <<2, 12, 3, 11>>, <<1, 5, 2, 6>>, <<3, 8, 4, 7>> >>
        Blocks == ({m_blk[i] : i \in 1..Len(m_blk)}
                   \cup {copy.m_blk[i] : i \in 1..Len(copy.m_blk)}) \ {NullBlk}
        Bounding(b, s) == {b.m_surf[s].includedEdge[x].at : x \in 1..4}
        Dependent(b, e) == {b.m_edge[e].dependentSurf[x].at : x \in 1..2}
    IN  \A b \in Blocks :
           /\ \A s \in 1..NumOfSurf :
                 /\ b.m_surf[s].local_index = s
                 /\ [x \in 1..4 |-> b.m_surf[s].includedEdge[x].at] = table[s]
           /\ \A e \in 1..NumOfEdge :
                 /\ b.m_edge[e].local_index = e
                 /\ Cardinality(Dependent(b, e)) = 2
                 /\ Dependent(b, e) \subseteq 1..NumOfSurf
           /\ \A e \in 1..NumOfEdge, s \in 1..NumOfSurf :
                 s \in Dependent(b, e) <=> e \in Bounding(b, s)

\* Two blocks have been read and copied.
C21_Witness ==
    /\ pc = "loaded"
    /\ Len(m_blk) = 2
    /\ \A i \in 1..2 : m_blk[i] # NullBlk
    /\ copy.made
    /\ Len(copy.m_blk) = 2

\* C22: edge(n) and surf(n), count being 12 and 6: n in -count..-1 returns
\* the element that count+1+n returns, n in 1..count returns the element with
\* local_index n, and 0 and every n of magnitude above count is rejected with
\* invalid_argument.
C22_NegativeIndexing ==
    ret # NoRet =>
        LET count == IF ret.call = "edge" THEN NumOfEdge ELSE NumOfSurf
            arr == IF ret.call = "edge" THEN m_blk[ret.blk].m_edge
                   ELSE m_blk[ret.blk].m_surf
        IN  /\ ret.n \in (-count)..(-1) =>
                 /\ err = NoErr
                 /\ ret.elem = <<arr[count + 1 + ret.n]>>
                 /\ ret.elem[1].local_index = count + 1 + ret.n
            /\ ret.n \in 1..count =>
                 /\ err = NoErr
                 /\ ret.elem = <<arr[ret.n]>>
                 /\ ret.elem[1].local_index = ret.n
            /\ (ret.n = 0 \/ ret.n > count \/ ret.n < -count) =>
                 /\ ret.elem = <<>>
                 /\ err # NoErr
                 /\ err.type = "invalid_argument"

\* edge(-1) has returned the twelfth edge.
C22_Witness ==
    /\ ret.call = "edge"
    /\ ret.n = -1
    /\ ret.elem # <<>>
    /\ ret.elem[1].local_index = NumOfEdge

C26_Coloring ==
    pc = "colored" =>
        LET Edges == (1..Len(m_blk)) \X (1..NumOfEdge)
            Index(x) == m_blk[x[1]].m_edge[x[2]].global_index
            Used == {Index(x) : x \in Edges}
            Bounding(b, f) == {<<b, m_blk[b].m_surf[f].includedEdge[q].at>> : q \in 1..4}
        IN  /\ \A x \in Edges : Index(x) # 0
            /\ Used = 1..Cardinality(Used)
            /\ (\A e \in 1..Len(m_entry) : m_entry[e].m_bc # ONE_TO_ONE) =>
                  \A x, y \in Edges : Index(x) = Index(y) => x = y
            /\ \A b \in 1..Len(m_blk), f \in 1..NumOfSurf :
                  m_blk[b].neighbourSurf[f] # NoSurf =>
                     LET nb == m_blk[b].neighbourSurf[f]
                     IN  \A x \in Bounding(b, f) :
                            \E y \in Bounding(nb[1], nb[2]) : Index(x) = Index(y)

\* C27: when readFromFile is called on an object that holds a loaded model and
\* throws, m_blk and m_entry are what they were before the call.
C27_FailedReadKeepsModel ==
    [][(pc \in {"loaded", "colored"} /\ pc' = "threw") =>
          (m_blk' = m_blk /\ m_entry' = m_entry)]_vars

(***************************************************************************)
(* The NMF interface src/glue.cc is written against (inc/nmf.h): loading,  *)
(* compute_topology() and numbering() as the specification describes them. *)
(***************************************************************************)
\* A range lies inside its surface: 1 <= s <= e <= dimension along the axis.
RangeInBounds(ds, c) ==
    /\ c[1] \in 1..Len(ds)
    /\ c[2] \in 1..NumOfSurf
    /\ 1 <= c[3] /\ c[3] <= c[4] /\ c[4] <= SurfPri(ds[c[1]], c[2])
    /\ 1 <= c[5] /\ c[5] <= c[6] /\ c[6] <= SurfSec(ds[c[1]], c[2])

\* The parser and the resolver accept the file: block ids 1..N, every range in
\* bounds, equal quad counts on both sides of a ONE_TO_ONE entry whose map T
\* sends the rectangle of A into the rectangle of B, no surface in two
\* ONE_TO_ONE entries.
SpecAccepts(f) ==
    LET ds == [b \in 1..f.N |->
                  LET l == CHOOSE x \in 1..Len(f.blks) : f.blks[x][1] = b
                  IN  <<f.blks[l][2], f.blks[l][3], f.blks[l][4]>>]
        dbl == {x \in 1..Len(f.entries) : f.entries[x].bc = "ONE_TO_ONE"}
    IN  /\ f.N >= 1 /\ Len(f.blks) = f.N
        /\ {f.blks[x][1] : x \in 1..Len(f.blks)} = 1..f.N
        /\ f.entries # <<>>
        /\ \A x \in 1..Len(f.entries) :
              /\ isValidBCStr(f.entries[x].bc)
              /\ RangeInBounds(ds, f.entries[x].c1)
        /\ \A x \in dbl :
              LET e == DoubleSideEntry("ONE_TO_ONE", f.entries[x].c1, f.entries[x].c2,
                                       f.entries[x].swp = "TRUE")
              IN  /\ RangeInBounds(ds, f.entries[x].c2)
                  /\ (e.m_rg1.E1 - e.m_rg1.S1) * (e.m_rg1.E2 - e.m_rg1.S2)
                     = (e.m_rg2.E1 - e.m_rg2.S1) * (e.m_rg2.E2 - e.m_rg2.S2)
                  /\ \A ps \in Rect(e.m_rg1) : T(e, ps) \in Rect(e.m_rg2)
                  /\ <<e.m_rg1.B, e.m_rg1.F>> # <<e.m_rg2.B, e.m_rg2.F>>
        /\ \A x, y \in dbl : x # y =>
              {<<f.entries[x].c1[1], f.entries[x].c1[2]>>,
               <<f.entries[x].c2[1], f.entries[x].c2[2]>>}
              \cap {<<f.entries[y].c1[1], f.entries[y].c1[2]>>,
                    <<f.entries[y].c2[1], f.entries[y].c2[2]>>} = {}

\* The lattice points in the order they are walked: blocks ascending, K-major,
\* then J, then I.
PointLoop(blk) ==
    Concat([b \in 1..Len(blk) |->
        Concat([k \in 1..blk[b].m_nK |->
            Concat([j \in 1..blk[b].m_nJ |-> [i \in 1..blk[b].m_nI |-> <<b, i, j, k>>]])])])

\* The quads of block b in the order they are numbered: internal I, internal
\* J, internal K, then the surfaces 1..6.
QuadLoopOf(blk, b) ==
    LET nI == blk[b].m_nI
        nJ == blk[b].m_nJ
        nK == blk[b].m_nK
        IFaces(i) == Concat([k \in 1..(nK - 1) |-> [j \in 1..(nJ - 1) |-> <<b, 1, i, j, k>>]])
        JFaces(j) == Concat([k \in 1..(nK - 1) |-> [i \in 1..(nI - 1) |-> <<b, 2, i, j, k>>]])
        KFaces(k) == Concat([i \in 1..(nI - 1) |-> [j \in 1..(nJ - 1) |-> <<b, 3, i, j, k>>]])
    IN  Concat([x \in 1..(nI - 2) |-> IFaces(x + 1)])
        \o Concat([x \in 1..(nJ - 2) |-> JFaces(x + 1)])
        \o Concat([x \in 1..(nK - 2) |-> KFaces(x + 1)])
        \o IFaces(1) \o IFaces(nI) \o JFaces(1) \o JFaces(nJ) \o KFaces(1) \o KFaces(nK)

QuadLoop(blk) == Concat([b \in 1..Len(blk) |-> QuadLoopOf(blk, b)])

RECURSIVE AssignIds(_, _, _, _, _)
\* Walk loop from position t on: an element without id gets the next id, and
\* so does everything in its class under the links L.  ids is the set of the
\* pairs <<element, id>> assigned so far.
AssignIds(ids, loop, t, c, L) ==
    IF t > Len(loop) THEN ids
    ELSE IF \E p \in ids : p[1] = loop[t] THEN AssignIds(ids, loop, t + 1, c, L)
    ELSE AssignIds(ids \cup {<<x, c + 1>> : x \in Reach({loop[t]}, L)},
                   loop, t + 1, c + 1, L)

\* The id a set of pairs <<element, id>> gives to x.
IdOf(ids, x) == (CHOOSE p \in ids : p[1] = x)[2]

RECURSIVE NumberAllCells(_, _, _)
\* Sweep 1: the cells of the blocks from block b on, c cells numbered so far.
NumberAllCells(blk, b, c) ==
    IF b > Len(blk) THEN blk
    ELSE NumberAllCells([blk EXCEPT ![b] = NumberCells(blk[b], CellLoop(blk[b]), 1, c)],
                        b + 1, c + cell_num(blk[b]))

\* numbering(): cells, nodes and faces; the ids are stored in the cells.
SpecNumbering(blk, entries) ==
    LET nodeId == AssignIds({}, PointLoop(blk), 1, 0, Links(blk, entries))
        quadId == AssignIds({}, QuadLoop(blk), 1, 0, QuadLinks(blk, entries))
        cells == NumberAllCells(blk, 1, 0)
    IN  [b \in 1..Len(blk) |->
           [cells[b] EXCEPT !.m_cell =
              [x \in 1..cell_num(blk[b]) |->
                 LET c == CHOOSE y \in CellsOf(blk[b]) :
                             CellIdx(blk[b], y[1], y[2], y[3]) = x
                 IN  [m_cell |-> cells[b].m_cell[x].m_cell,
                      m_node |-> [r \in 1..NumOfVertex |-> IdOf(nodeId, CornerPoint(<<b, c, r>>))],
                      m_face |-> [r \in 1..NumOfSurf |-> IdOf(quadId, SideQuad(<<b, c, r>>))]]]]]

\* Block3D::node_index(i, j, k) of block b: the id stored for a cell corner on
\* that lattice point.
node_index(blk, b, i, j, k) ==
    LET ci == IF i = blk[b].m_nI THEN i - 1 ELSE i
        cj == IF j = blk[b].m_nJ THEN j - 1 ELSE j
        ck == IF k = blk[b].m_nK THEN k - 1 ELSE k
        r == CHOOSE x \in 1..NumOfVertex : HexCorner(x) = <<i - ci, j - cj, k - ck>>
    IN  cell(blk[b], ci, cj, ck).m_node[r]

\* nNode(): the number of node ids.
nNode(blk) == Cardinality({node_index(blk, pt[1], pt[2], pt[3], pt[4]) : pt \in Points(blk)})

\* nFace(total, inner, bdry): the number of face ids.
nFaceTotal(blk) ==
    Cardinality({cell(blk[x[1]], x[2][1], x[2][2], x[2][3]).m_face[x[3]] : x \in Sides(blk)})

(***************************************************************************)
(* GridTool::XF::MESH::MESH(f_nmf, f_p3d, fout) (src/glue.cc)              *)
(***************************************************************************)
\* The dimensions of the blocks of a file, by block id.
DimsOf(f) ==
    [b \in 1..f.N |->
        LET l == CHOOSE x \in 1..Len(f.blks) : f.blks[x][1] = b
        IN  <<f.blks[l][2], f.blks[l][3], f.blks[l][4]>>]

\* The PLOT3D grids given with a file: the grid of the same blocks, those
\* with one more node along I or K in block 1 or along J in the last block,
\* the one with block 1 twice.
P3DGrids(f) ==
    LET ds == DimsOf(f)
    IN  {ds, [ds EXCEPT ![1][1] = ds[1][1] + 1], [ds EXCEPT ![1][3] = ds[1][3] + 1],
         [ds EXCEPT ![Len(ds)][2] = ds[Len(ds)][2] + 1], <<ds[1]>> \o ds}

\* A default-constructed FACE and CELL of the mesh tables.
NoFace == [atBdry |-> FALSE, type |-> "", includedNode |-> <<>>, leftCell |-> 0,
           rightCell |-> 0, bc |-> 0]

NoCell == [type |-> "", includedFace |-> <<>>, includedNode |-> <<>>]

NoNode == [coordinate |-> <<>>]

\* The order in which the face with local number r of a cell lists the local
\* nodes of that cell.
FaceNodeOrder_IMaxReversed(r) ==
    CASE r = 1 -> <<1, 5, 8, 4>>
      [] r = 2 -> <<2, 6, 7, 3>>
      [] r = 3 -> <<6, 5, 1, 2>>
      [] r = 4 -> <<3, 4, 8, 7>>
      [] r = 5 -> <<4, 3, 2, 1>>
      [] r = 6 -> <<8, 5, 6, 7>>

FaceNodeOrder(r) ==
    CASE r = 1 -> <<1, 5, 8, 4>>
      [] r = 2 -> <<2, 3, 7, 6>>
      [] r = 3 -> <<6, 5, 1, 2>>
      [] r = 4 -> <<3, 4, 8, 7>>
      [] r = 5 -> <<4, 3, 2, 1>>
      [] r = 6 -> <<8, 5, 6, 7>>

\* The cell a surface loop takes at position (p, q) of surface r.
SurfCell(b, r, p, q) ==
    CASE r = 1 -> <<1, p, q>>
      [] r = 2 -> <<b.m_nI - 1, p, q>>
      [] r = 3 -> <<p, 1, q>>
      [] r = 4 -> <<p, b.m_nJ - 1, q>>
      [] r = 5 -> <<p, q, 1>>
      [] r = 6 -> <<p, q, b.m_nK - 1>>

\* The iterations of the nine loops over the faces of block b, in program
\* order: <<"internal", curCell, adjCell, r>> and <<"surface", curCell, r>>.
FaceSteps(b) ==
    LET nI == b.m_nI
        nJ == b.m_nJ
        nK == b.m_nK
        InI == Concat([k \in 1..(nK - 1) |-> Concat([j \in 1..(nJ - 1) |->
                   [x \in 1..(nI - 2) |-> <<"internal", <<x + 1, j, k>>, <<x, j, k>>, 1>>]])])
        InJ == Concat([k \in 1..(nK - 1) |-> Concat([i \in 1..(nI - 1) |->
                   [x \in 1..(nJ - 2) |-> <<"internal", <<i, x + 1, k>>, <<i, x, k>>, 3>>]])])
        InK == Concat([i \in 1..(nI - 1) |-> Concat([j \in 1..(nJ - 1) |->
                   [x \in 1..(nK - 2) |-> <<"internal", <<i, j, x + 1>>, <<i, j, x>>, 5>>]])])
        \* for k, for j on surfaces 1 and 2; for k, for i on 3 and 4
        SurfKMajor(r, nP) ==
            Concat([k \in 1..(nK - 1) |->
                       [p \in 1..(nP - 1) |-> <<"surface", SurfCell(b, r, p, k), r>>]])
        \* for i, for j on surfaces 5 and 6
        SurfIMajor(r) ==
            Concat([i \in 1..(nI - 1) |->
                       [j \in 1..(nJ - 1) |-> <<"surface", SurfCell(b, r, i, j), r>>]])
    IN  InI \o InJ \o InK
        \o SurfKMajor(1, nJ) \o SurfKMajor(2, nJ) \o SurfKMajor(3, nI) \o SurfKMajor(4, nI)
        \o SurfIMajor(5) \o SurfIMajor(6)

\* face(faceIndex) of the mesh: the index is checked by Array1D.
BadFaceIndex(faces, faceIndex) == faceIndex < 1 \/ faceIndex > Len(faces)

\* The body of an internal loop with curCell on both sides of the face.
InternalFace_CurOnBothSides(st, b, cur, adj, r) ==
    LET curCell == cell(b, cur[1], cur[2], cur[3])
        faceIndex == curCell.m_face[r]
    IN  IF BadFaceIndex(st.face, faceIndex)
        THEN [st EXCEPT !.err = Throw("out_of_range", "face")]
        ELSE [st EXCEPT
                !.face[faceIndex] =
                    [atBdry |-> FALSE,
                     type |-> "QUADRILATERAL",
                     includedNode |-> [q \in 1..4 |-> curCell.m_node[FaceNodeOrder(r)[q]]],
                     leftCell |-> curCell.m_cell,
                     rightCell |-> curCell.m_cell,
                     bc |-> st.face[faceIndex].bc],
                !.visited[faceIndex] = TRUE]

\* The body of an internal loop: the face between adjCell and curCell.
InternalFace(st, b, cur, adj, r) ==
    LET curCell == cell(b, cur[1], cur[2], cur[3])
        adjCell == cell(b, adj[1], adj[2], adj[3])
        faceIndex == curCell.m_face[r]
    IN  IF BadFaceIndex(st.face, faceIndex)
        THEN [st EXCEPT !.err = Throw("out_of_range", "face")]
        ELSE [st EXCEPT
                !.face[faceIndex] =
                    [atBdry |-> FALSE,
                     type |-> "QUADRILATERAL",
                     includedNode |-> [q \in 1..4 |-> curCell.m_node[FaceNodeOrder(r)[q]]],
                     leftCell |-> adjCell.m_cell,
                     rightCell |-> curCell.m_cell,
                     bc |-> st.face[faceIndex].bc],
                !.visited[faceIndex] = TRUE]

\* The body of a surface loop creating the face with curCell on its left.
SurfaceFace_CreatedOnLeft(st, b, cur, r) ==
    LET curCell == cell(b, cur[1], cur[2], cur[3])
        faceIndex == curCell.m_face[r]
        curFace == st.face[faceIndex]
    IN  IF BadFaceIndex(st.face, faceIndex)
        THEN [st EXCEPT !.err = Throw("out_of_range", "face")]
        ELSE IF st.visited[faceIndex]
        THEN IF ~curFace.atBdry
             THEN IF curFace.leftCell = 0
                  THEN [st EXCEPT !.face[faceIndex].leftCell = curCell.m_cell]
                  ELSE IF curFace.rightCell = 0
                  THEN [st EXCEPT !.face[faceIndex].rightCell = curCell.m_cell]
                  ELSE [st EXCEPT !.err =
                           Throw("runtime_error",
                                 "Double-Sided face should not appear more than twice!")]
             ELSE [st EXCEPT !.err =
                      Throw("runtime_error", "Boundary face shouldn't appear twice!")]
        ELSE [st EXCEPT
                !.face[faceIndex] =
                    [atBdry |-> (b.neighbourSurf[r] = NoSurf),
                     type |-> "QUADRILATERAL",
                     includedNode |-> [q \in 1..4 |-> curCell.m_node[FaceNodeOrder(r)[q]]],
                     leftCell |-> curCell.m_cell,
                     rightCell |-> 0,
                     bc |-> curFace.bc],
                !.visited[faceIndex] = TRUE]

\* The body of a surface loop: the face of curCell on surface r.
SurfaceFace(st, b, cur, r) ==
    LET curCell == cell(b, cur[1], cur[2], cur[3])
        faceIndex == curCell.m_face[r]
        curFace == st.face[faceIndex]
    IN  IF BadFaceIndex(st.face, faceIndex)
        THEN [st EXCEPT !.err = Throw("out_of_range", "face")]
        ELSE IF st.visited[faceIndex]
        THEN IF ~curFace.atBdry
             THEN IF curFace.leftCell = 0
                  THEN [st EXCEPT !.face[faceIndex].leftCell = curCell.m_cell]
                  ELSE IF curFace.rightCell = 0
                  THEN [st EXCEPT !.face[faceIndex].rightCell = curCell.m_cell]
                  ELSE [st EXCEPT !.err =
                           Throw("runtime_error",
                                 "Double-Sided face should not appear more than twice!")]
             ELSE [st EXCEPT !.err =
                      Throw("runtime_error", "Boundary face shouldn't appear twice!")]
        ELSE [st EXCEPT
                !.face[faceIndex] =
                    [atBdry |-> (b.neighbourSurf[r] = NoSurf),
                     type |-> "QUADRILATERAL",
                     includedNode |-> [q \in 1..4 |-> curCell.m_node[FaceNodeOrder(r)[q]]],
                     leftCell |-> 0,
                     rightCell |-> curCell.m_cell,
                     bc |-> curFace.bc],
                !.visited[faceIndex] = TRUE]

RECURSIVE RunFaceSteps(_, _, _, _)
\* The iterations of steps from t on, until one throws.
RunFaceSteps(st, b, steps, t) ==
    IF t > Len(steps) \/ st.err # NoErr THEN st
    ELSE RunFaceSteps(IF steps[t][1] = "internal"
                      THEN InternalFace(st, b, steps[t][2], steps[t][3], steps[t][4])
                      ELSE SurfaceFace(st, b, steps[t][2], steps[t][3]),
                      b, steps, t + 1)

RECURSIVE CopyNodes(_, _, _, _, _)
\* "Copy node info" over the points of block b from iteration t on.
CopyNodes(st, blk, b, loop, t) ==
    IF t > Len(loop) THEN st
    ELSE LET pt == loop[t]
             idx == node_index(blk, b, pt[2], pt[3], pt[4])
         IN  CopyNodes(IF st.visited[idx] THEN st
                       ELSE [st EXCEPT !.node[idx] = [coordinate |-> pt],
                                       !.visited[idx] = TRUE],
                       blk, b, loop, t + 1)

\* The points of block b: for k, for j, for i.
PointLoopOf(blk, b) ==
    Concat([k \in 1..blk[b].m_nK |->
        Concat([j \in 1..blk[b].m_nJ |-> [i \in 1..blk[b].m_nI |-> <<b, i, j, k>>]])])

RECURSIVE CopyCells(_, _, _, _)
\* "Copy cell info" over the cells of block b from iteration t on.
CopyCells(cells, b, loop, t) ==
    IF t > Len(loop) THEN cells
    ELSE LET nc == cell(b, loop[t][1], loop[t][2], loop[t][3])
         IN  CopyCells([cells EXCEPT ![nc.m_cell] =
                           [type |-> "HEXAHEDRAL",
                            includedFace |-> [r \in 1..NumOfSurf |-> nc.m_face[r]],
                            includedNode |-> [r \in 1..NumOfVertex |-> nc.m_node[r]]]],
                       b, loop, t + 1)

InitGlue ==
    /\ \/ InputFile(file)
       \/ \E ds \in OneBlock : \E e \in 2..MaxDim :
             e < ds[1][3] /\ file = PartJoinFile(ds, e)
    /\ SpecAccepts(file)
    /\ p3d \in P3DGrids(file)
    /\ pc = "glue_start"
    /\ err = NoErr
    /\ m_blk = <<>>
    /\ m_entry = <<>>
    /\ cnt = 0
    /\ n = 0
    /\ m_node = <<>>
    /\ m_face = <<>>
    /\ m_cell = <<>>
    /\ visited = <<>>
    /\ copy = NoCopy
    /\ ret = NoRet

\* "Load mapping file": Mapping3D(f_nmf), compute_topology(), numbering().
GlueLoad ==
    /\ pc = "glue_start"
    /\ LET rb == ReadBlocks([b \in 1..file.N |-> NullBlk], file.blks, 1, file.N)
           re == ReadEntries(<<>>, file.entries, 1)
           rc == Connect(rb.blk, re.entries, 1)
       IN  /\ m_blk' = SpecNumbering(rc.blk, re.entries)
           /\ m_entry' = re.entries
    /\ pc' = "glue_check"
    /\ UNCHANGED <<file, copy, ret, p3d, err, cnt, n, m_node, m_face, m_cell, visited>>

\* "Check consistency." without the comparison of KDIM.
CheckConsistency_NoK(blk, g) ==
    IF Len(blk) # Len(g)
    THEN Throw("invalid_argument", "Inconsistent num of blocks between NMF and PLOT3D.")
    ELSE LET bad == {b \in 1..Len(blk) : <<blk[b].m_nI, blk[b].m_nJ>> # <<g[b][1], g[b][2]>>}
             b == CHOOSE x \in bad : \A y \in bad : x <= y
         IN  IF bad = {} THEN NoErr
             ELSE IF blk[b].m_nI # g[b][1]
             THEN Throw("invalid_argument", "Inconsistent num of nodes in I dimension")
             ELSE Throw("invalid_argument", "Inconsistent num of nodes in J dimension")

\* "Check consistency.": the exception thrown for the model blk and the grid
\* g, NoErr if none; the blocks are compared in order, I, J, K in each.
CheckConsistency(blk, g) ==
    IF Len(blk) # Len(g)
    THEN Throw("invalid_argument", "Inconsistent num of blocks between NMF and PLOT3D.")
    ELSE LET bad == {b \in 1..Len(blk) : <<blk[b].m_nI, blk[b].m_nJ, blk[b].m_nK>> # g[b]}
             b == CHOOSE x \in bad : \A y \in bad : x <= y
         IN  IF bad = {} THEN NoErr
             ELSE IF blk[b].m_nI # g[b][1]
             THEN Throw("invalid_argument", "Inconsistent num of nodes in I dimension")
             ELSE IF blk[b].m_nJ # g[b][2]
             THEN Throw("invalid_argument", "Inconsistent num of nodes in J dimension")
             ELSE Throw("invalid_argument", "Inconsistent num of nodes in K dimension")

GlueCheck ==
    /\ pc = "glue_check"
    /\ err' = CheckConsistency(m_blk, p3d)
    /\ pc' = IF CheckConsistency(m_blk, p3d) # NoErr THEN "failed" ELSE "glue_alloc"
    /\ UNCHANGED <<file, copy, ret, p3d, m_blk, m_entry, cnt, n, m_node, m_face, m_cell, visited>>

\* "Allocate storage."
GlueAllocate ==
    /\ pc = "glue_alloc"
    /\ m_node' = [x \in 1..nNode(m_blk) |-> NoNode]
    /\ m_face' = [x \in 1..nFaceTotal(m_blk) |-> NoFace]
    /\ m_cell' = [x \in 1..nCell(m_blk) |-> NoCell]
    /\ visited' = [x \in 1..nNode(m_blk) |-> FALSE]
    /\ n' = 1
    /\ pc' = "glue_nodes"
    /\ UNCHANGED <<file, copy, ret, p3d, err, m_blk, m_entry, cnt>>

\* "Copy node info": one block of the loop.
GlueCopyNodes ==
    /\ pc = "glue_nodes"
    /\ n <= Len(m_blk)
    /\ LET st == CopyNodes([node |-> m_node, visited |-> visited], m_blk, n,
                           PointLoopOf(m_blk, n), 1)
       IN  /\ m_node' = st.node
           /\ visited' = st.visited
    /\ IF n = Len(m_blk)
       THEN pc' = "glue_cells" /\ n' = 1
       ELSE pc' = pc /\ n' = n + 1
    /\ UNCHANGED <<file, copy, ret, p3d, err, m_blk, m_entry, cnt, m_face, m_cell>>

\* "Copy cell info": one block of the loop; after the last block the visited
\* marks are reset for the faces.
GlueCopyCells ==
    /\ pc = "glue_cells"
    /\ n <= Len(m_blk)
    /\ m_cell' = CopyCells(m_cell, m_blk[n], CellLoop(m_blk[n]), 1)
    /\ IF n = Len(m_blk)
       THEN /\ pc' = "glue_faces"
            /\ n' = 1
            /\ visited' = [x \in 1..Len(m_face) |-> FALSE]
       ELSE /\ pc' = pc
            /\ n' = n + 1
            /\ UNCHANGED visited
    /\ UNCHANGED <<file, copy, ret, p3d, err, m_blk, m_entry, cnt, m_node, m_face>>

\* "Copy face info": one block of the loop.
GlueCopyFaces ==
    /\ pc = "glue_faces"
    /\ n <= Len(m_blk)
    /\ LET st == RunFaceSteps([face |-> m_face, visited |-> visited, err |-> NoErr],
                              m_blk[n], FaceSteps(m_blk[n]), 1)
       IN  /\ m_face' = st.face
           /\ visited' = st.visited
           /\ err' = st.err
           /\ IF st.err # NoErr
              THEN pc' = "failed" /\ n' = n
              ELSE IF n = Len(m_blk)
              THEN pc' = "glue_assembled" /\ n' = n + 1
              ELSE pc' = pc /\ n' = n + 1
    /\ UNCHANGED <<file, copy, ret, p3d, m_blk, m_entry, cnt, m_node, m_cell>>

\* "Finalize": delete nmf; delete p3d.
GlueFinish ==
    /\ pc = "glue_assembled"
    /\ m_blk' = <<>>
    /\ m_entry' = <<>>
    /\ p3d' = <<>>
    /\ pc' = "glue_done"
    /\ UNCHANGED <<file, copy, ret, err, cnt, n, m_node, m_face, m_cell, visited>>

NextGlue ==
    \/ GlueLoad
    \/ GlueCheck
    \/ GlueAllocate
    \/ GlueCopyNodes
    \/ GlueCopyCells
    \/ GlueCopyFaces
    \/ GlueFinish

SpecGlue == InitGlue /\ [][NextGlue]_vars

\* The face tables are complete (the NMF model is still alive).
Assembled == pc = "glue_assembled"

\* The assembler has returned.
AssemblyEnded == pc \in {"glue_assembled", "glue_done"}

\* The cells <<b, <<i, j, k>>>> of the blocks blk.
AllCells(blk) == UNION {{<<b, c>> : c \in CellsOf(blk[b])} : b \in 1..Len(blk)}

\* The block cell that carries the cell id.
CellAt(id) == CHOOSE x \in AllCells(m_blk) : CellSeq(x) = id

\* The eight corners of a block cell carry eight node ids.
DistinctNodes(x) == Cardinality({NodeSeq(<<x[1], x[2], r>>) : r \in 1..NumOfVertex}) = NumOfVertex

\* Position of the node id in the frame of cell x, relative to its node 1.
NodePos(x, id) == HexCorner(CHOOSE r \in 1..NumOfVertex : NodeSeq(<<x[1], x[2], r>>) = id)

Plus(u, v) == <<u[1] + v[1], u[2] + v[2], u[3] + v[3]>>

Minus(u, v) == <<u[1] - v[1], u[2] - v[2], u[3] - v[3]>>

Cross(u, v) ==
    <<u[2] * v[3] - u[3] * v[2], u[3] * v[1] - u[1] * v[3], u[1] * v[2] - u[2] * v[1]>>

\* (n2 - n1) x (n3 - n2) of a face record, its nodes placed on the lattice
\* through the cell that is its rightCell.
Normal(f) ==
    LET x == CellAt(f.rightCell)
        P(q) == NodePos(x, f.includedNode[q])
    IN  Cross(Minus(P(2), P(1)), Minus(P(3), P(2)))

\* The direction that leaves a cell through its face r.
OutDir(r) ==
    CASE r = 1 -> <<-1, 0, 0>>
      [] r = 2 -> <<1, 0, 0>>
      [] r = 3 -> <<0, -1, 0>>
      [] r = 4 -> <<0, 1, 0>>
      [] r = 5 -> <<0, 0, -1>>
      [] r = 6 -> <<0, 0, 1>>

\* The faces whose nodes can be placed: the rightCell has eight node ids.
Placed(fi) == m_face[fi].rightCell # 0 /\ DistinctNodes(CellAt(m_face[fi].rightCell))

\* Face fi lies between two cells of one block, the rightCell and its lattice
\* neighbour across the face.
BlockInternal(fi) ==
    /\ m_face[fi].leftCell # 0
    /\ m_face[fi].rightCell # 0
    /\ LET x == CellAt(m_face[fi].rightCell)
           y == CellAt(m_face[fi].leftCell)
       IN  /\ x[1] = y[1]
           /\ \E r \in 1..NumOfSurf :
                 /\ FaceSeq(<<x[1], x[2], r>>) = fi
                 /\ y[2] = Plus(x[2], OutDir(r))

(***************************************************************************)
(* C5.  After assembly every face record has leftCell # rightCell and at   *)
(* most one of leftCell, rightCell is 0.                                   *)
(***************************************************************************)
C5_LeftRight ==
    AssemblyEnded =>
        \A fi \in 1..Len(m_face) :
           /\ m_face[fi].leftCell # m_face[fi].rightCell
           /\ ~(m_face[fi].leftCell = 0 /\ m_face[fi].rightCell = 0)

C18_P3DConsistency ==
    LET differ == \/ Len(m_blk) # Len(p3d)
                  \/ \E b \in 1..Len(m_blk) :
                        <<m_blk[b].m_nI, m_blk[b].m_nJ, m_blk[b].m_nK>> # p3d[b]
    IN  pc \notin {"glue_start", "glue_check", "glue_done"} =>
           IF differ
           THEN /\ pc = "failed" /\ err.type = "invalid_argument"
                /\ m_node = <<>> /\ m_face = <<>> /\ m_cell = <<>>
           ELSE err.type # "invalid_argument"

\* The conversion has failed on a grid that differs from the model of two
\* blocks in nothing but the K dimension of block 1.
C18_Witness ==
    /\ pc = "failed" /\ err.what = "Inconsistent num of nodes in K dimension"
    /\ Len(m_blk) = 2 /\ Len(p3d) = 2
    /\ p3d[1][3] = m_blk[1].m_nK + 1
    /\ p3d[2] = <<m_blk[2].m_nI, m_blk[2].m_nJ, m_blk[2].m_nK>>
    /\ m_node = <<>> /\ m_face = <<>> /\ m_cell = <<>>

\* SingleSideEntry::contains(bs, fs, lpri, lsec)
contains(e, bs, fs, lpri, lsec) ==
    IF e.m_rg1.B = bs /\ e.m_rg1.F = fs /\ constains(e.m_rg1, lpri, lsec) THEN 1 ELSE 0

\* C20: after assembly every boundary face (one neighbour is 0) carries the
\* boundary-condition kind of the single-side entry whose range on its block
\* surface contains it.
C20_BoundaryKind ==
    Assembled =>
        \A x \in Sides(m_blk) :
           LET fi == FaceSeq(x)
               c == x[2]
               r == x[3]
               p == IF r \in {1, 2} THEN c[2] ELSE c[1]
               q == IF r \in {5, 6} THEN c[2] ELSE c[3]
           IN  (m_face[fi].leftCell = 0 \/ m_face[fi].rightCell = 0) =>
                  \A e \in 1..Len(m_entry) :
                     (/\ ~m_entry[e].dbl
                      /\ contains(m_entry[e], x[1], r, p, q) = 1
                      /\ contains(m_entry[e], x[1], r, p + 1, q + 1) = 1)
                     => m_face[fi].bc = m_entry[e].m_bc

\* The cell faces of blk that lie on a surface of their block and carry the
\* face id fi: two of them when fi is a face of a ONE_TO_ONE interface.
SurfaceSides(blk, fi) ==
    {x \in Sides(blk) :
        /\ FaceSeq(x) = fi
        /\ SurfCell(blk[x[1]], x[3], IF x[3] \in {1, 2} THEN x[2][2] ELSE x[2][1],
                    IF x[3] \in {5, 6} THEN x[2][2] ELSE x[2][3]) = x[2]}

\* C23: the sweep of block n over the faces of the ONE_TO_ONE interfaces.  A
\* face not visited before is created with rightCell = the adjacent cell of
\* block n, that cell's node order and leftCell = 0 (the other adjacent cell
\* when both sides of the interface are in block n); a face visited before
\* had leftCell = 0 and gets leftCell = the adjacent cell of block n, with
\* rightCell and the node list unchanged; when the last block is done both
\* neighbours of every interface face are non-zero.
C23_InterfaceVisits ==
    [][(pc = "glue_faces" /\ pc' \in {"glue_faces", "glue_assembled"}) =>
          \A fi \in 1..Len(m_face) :
             LET sides == SurfaceSides(m_blk, fi)
                 mine == {x \in sides : x[1] = n}
                 Created(x) ==
                     /\ m_face'[fi].rightCell = CellSeq(x)
                     /\ m_face'[fi].includedNode =
                            [q \in 1..4 |-> NodeSeq(<<x[1], x[2], FaceNodeOrder(x[3])[q]>>)]
             IN  Cardinality(sides) = 2 =>
                    /\ mine = {} => m_face'[fi] = m_face[fi]
                    /\ (mine # {} /\ ~visited[fi]) =>
                          /\ visited'[fi]
                          /\ \E x \in mine :
                                /\ Created(x)
                                /\ m_face'[fi].leftCell =
                                      IF mine = {x} THEN 0
                                      ELSE CellSeq(CHOOSE y \in mine : y # x)
                    /\ (mine # {} /\ visited[fi]) =>
                          /\ m_face[fi].leftCell = 0
                          /\ \E x \in mine : m_face'[fi].leftCell = CellSeq(x)
                          /\ m_face'[fi].rightCell = m_face[fi].rightCell
                          /\ m_face'[fi].includedNode = m_face[fi].includedNode
                    /\ pc' = "glue_assembled" =>
                          /\ m_face'[fi].leftCell # 0
                          /\ m_face'[fi].rightCell # 0]_vars

\* A face between block 1 and block 2 after the sweep of both: created from
\* block 1, leftCell patched from block 2.
C23_Witness ==
    /\ Assembled
    /\ \E fi \in 1..Len(m_face) :
          /\ Cardinality(SurfaceSides(m_blk, fi)) = 2
          /\ \E x, y \in SurfaceSides(m_blk, fi) :
                /\ x[1] = 1
                /\ y[1] = 2
                /\ m_face[fi].rightCell = CellSeq(x)
                /\ m_face[fi].leftCell = CellSeq(y)

\* C24: after assembly every face record has as rightCell a cell one of whose
\* faces it is, and lists four of that cell's nodes in the order tabulated
\* for that face; the record of the face at I = i >= 2 (J = j, K = k) of a
\* cell has that cell as rightCell and the cell at i-1 (j-1, k-1) as leftCell.
C24_FaceCreation ==
    Assembled =>
        LET order == << <<1, 5, 8, 4>>, <<2, 3, 7, 6>>, <<6, 5, 1, 2>>,
                        <<3, 4, 8, 7>>, <<4, 3, 2, 1>>, <<8, 5, 6, 7>> >>
            NodesOf(x) == [q \in 1..4 |-> NodeSeq(<<x[1], x[2], order[x[3]][q]>>)]
            Before(c, ax) == [c EXCEPT ![ax] = c[ax] - 1]
        IN  /\ \A fi \in 1..Len(m_face) :
                  \E x \in Sides(m_blk) :
                     /\ FaceSeq(x) = fi
                     /\ m_face[fi].rightCell = CellSeq(x)
                     /\ m_face[fi].includedNode = NodesOf(x)
            /\ \A x \in Sides(m_blk) :
                  \A ax \in 1..3 :
                     (x[3] = 2 * ax - 1 /\ x[2][ax] >= 2) =>
                        LET f == m_face[FaceSeq(x)]
                        IN  /\ f.rightCell = CellSeq(x)
                            /\ f.leftCell = CellSeq(<<x[1], Before(x[2], ax)>>)
                            /\ f.includedNode = NodesOf(x)

\* A block with two cells along K: the face between them has the upper cell
\* on its right, the lower one on its left and the nodes 4, 3, 2, 1 of the
\* upper cell.
C24_Witness ==
    /\ Assembled
    /\ \E b \in 1..Len(m_blk) :
          /\ m_blk[b].m_nK = 3
          /\ LET up == <<b, <<1, 1, 2>>>>
                 f == m_face[FaceSeq(<<b, <<1, 1, 2>>, 5>>)]
             IN  /\ f.rightCell = CellSeq(up)
                 /\ f.leftCell = CellSeq(<<b, <<1, 1, 1>>>>)
                 /\ f.leftCell # f.rightCell
                 /\ f.includedNode = <<NodeSeq(<<b, <<1, 1, 2>>, 4>>),
                                       NodeSeq(<<b, <<1, 1, 2>>, 3>>),
                                       NodeSeq(<<b, <<1, 1, 2>>, 2>>),
                                       NodeSeq(<<b, <<1, 1, 2>>, 1>>)>>

\* C29: after assembly a face record is flagged atBdry exactly when one, and
\* only one, of its leftCell and rightCell is 0; so also on a surface that a
\* ONE_TO_ONE range covers in part, single-side entries covering the rest.
C29_BoundaryFlag ==
    Assembled =>
        \A fi \in 1..Len(m_face) :
           m_face[fi].atBdry <=> ((m_face[fi].leftCell = 0) # (m_face[fi].rightCell = 0))
====
